---------------------------- MODULE Spec2Model ----------------------------
(***************************************************************************)
(* A model of the analytics core of the portfolio risk analyzer            *)
(* (src/src/lib/analytics.ts): calculatePortfolioMetrics,                  *)
(* runMonteCarloSimulation with calculateMultiPeriodProjections,           *)
(* calculateRiskMetrics and calculateTOPSISRanking.                        *)
(*                                                                         *)
(* JavaScript numbers are modelled as extended rationals: a pair <<n, d>>  *)
(* with d > 0 in lowest terms is the finite number n/d, <<0, 0>> is NaN,   *)
(* <<1, 0>> is Infinity and <<-1, 0>> is -Infinity.  The special values    *)
(* follow IEEE 754 (x/0, Infinity - Infinity, 0 * Infinity, comparisons    *)
(* with NaN).  Finite arithmetic is exact whenever the exact result fits   *)
(* the integer width of the model; a result that does not fit is rounded,  *)
(* and one whose magnitude leaves the range becomes an infinity or 0.      *)
(* The sign of zero is not modelled.                                       *)
(***************************************************************************)
EXTENDS Integers, Sequences, FiniteSets, TLC

(***************************************************************************)
(* Integer helpers                                                         *)
(***************************************************************************)
IntLimit == 1073741823

FitLimit == 16383

AbsInt(k) == IF k < 0 THEN -k ELSE k

SignInt(k) == IF k < 0 THEN -1 ELSE IF k > 0 THEN 1 ELSE 0

MaxInt(a, b) == IF a >= b THEN a ELSE b

MinInt(a, b) == IF a <= b THEN a ELSE b

RECURSIVE Gcd(_, _)
Gcd(a, b) == IF b = 0 THEN a ELSE Gcd(b, a % b)

\* a * b stays within the integer width
FitsMul(a, b) == a = 0 \/ b = 0 \/ AbsInt(a) <= IntLimit \div AbsInt(b)

RECURSIVE ISqrtSearch(_, _, _)
ISqrtSearch(m, lo, hi) ==
    IF lo >= hi THEN lo
    ELSE LET mid == (lo + hi + 1) \div 2
         IN  IF mid <= m \div mid THEN ISqrtSearch(m, mid, hi)
             ELSE ISqrtSearch(m, lo, mid - 1)

\* the largest r with r * r <= m, for m >= 0
ISqrt(m) == IF m = 0 THEN 0 ELSE ISqrtSearch(m, 1, MinInt(m, 46340))

IsSquare(m) == LET r == ISqrt(m) IN r * r = m

(***************************************************************************)
(* JavaScript numbers                                                      *)
(***************************************************************************)
NaN == <<0, 0>>

PosInf == <<1, 0>>

NegInf == <<-1, 0>>

Zero == <<0, 1>>

One == <<1, 1>>

\* the number n/d in canonical form; d = 0 gives NaN or an infinity
Rat(n, d) ==
    IF d = 0 THEN <<SignInt(n), 0>>
    ELSE LET g == Gcd(AbsInt(n), AbsInt(d))
             s == IF d < 0 THEN -1 ELSE 1
         IN  <<s * (n \div g), s * (d \div g)>>

Num(k) == <<k, 1>>

isNaN(x) == x = NaN

IsFinite(x) == x[2] # 0

IsInf(x) == x[2] = 0 /\ x[1] # 0

Sign(x) == SignInt(x[1])

RECURSIVE Shrink(_, _)
\* rounds n/d (d > 0) to a number whose parts are at most FitLimit: a
\* denominator that vanishes is an overflow, a numerator that vanishes an
\* underflow
Shrink(n, d) ==
    IF AbsInt(n) <= FitLimit /\ d <= FitLimit THEN Rat(n, d)
    ELSE LET n2 == SignInt(n) * (AbsInt(n) \div 2)
             d2 == d \div 2
         IN  IF d2 = 0 THEN <<SignInt(n), 0>>
             ELSE IF n2 = 0 THEN Zero
             ELSE Shrink(n2, d2)

Fit(x) == IF IsFinite(x) THEN Shrink(x[1], x[2]) ELSE x

Neg(x) == <<-x[1], x[2]>>

\* Math.abs
MathAbs(x) == <<AbsInt(x[1]), x[2]>>

\* exact product of two finite numbers whose cross-reduced parts fit
MulExact(x, y) ==
    LET g1 == Gcd(AbsInt(x[1]), y[2])
        g2 == Gcd(AbsInt(y[1]), x[2])
    IN  <<(x[1] \div g1) * (y[1] \div g2), (x[2] \div g2) * (y[2] \div g1)>>

MulFits(x, y) ==
    LET g1 == Gcd(AbsInt(x[1]), y[2])
        g2 == Gcd(AbsInt(y[1]), x[2])
    IN  /\ FitsMul(x[1] \div g1, y[1] \div g2)
        /\ FitsMul(x[2] \div g2, y[2] \div g1)

\* x * y
Mul(x, y) ==
    IF isNaN(x) \/ isNaN(y) THEN NaN
    ELSE IF ~IsFinite(x) \/ ~IsFinite(y)
         THEN <<Sign(x) * Sign(y), 0>>
    ELSE IF x[1] = 0 \/ y[1] = 0 THEN Zero
    ELSE IF MulFits(x, y) THEN MulExact(x, y)
    ELSE LET fx == Fit(x)
             fy == Fit(y)
         IN  IF IsFinite(fx) /\ IsFinite(fy) THEN MulExact(fx, fy)
             ELSE <<Sign(fx) * Sign(fy), 0>>

AddExact(x, y) ==
    LET g == Gcd(x[2], y[2])
        l == x[2] * (y[2] \div g)
    IN  Rat(x[1] * (y[2] \div g) + y[1] * (x[2] \div g), l)

AddFits(x, y) ==
    LET g == Gcd(x[2], y[2])
    IN  /\ FitsMul(x[2], y[2] \div g)
        /\ FitsMul(2 * x[1], y[2] \div g)
        /\ FitsMul(2 * y[1], x[2] \div g)

\* x + y
Add(x, y) ==
    IF isNaN(x) \/ isNaN(y) THEN NaN
    ELSE IF ~IsFinite(x)
         THEN IF ~IsFinite(y) /\ y # x THEN NaN ELSE x
    ELSE IF ~IsFinite(y) THEN y
    ELSE IF AddFits(x, y) THEN AddExact(x, y)
    ELSE LET fx == Fit(x)
             fy == Fit(y)
         IN  IF ~IsFinite(fx)
             THEN IF ~IsFinite(fy) /\ fy # fx THEN NaN ELSE fx
             ELSE IF ~IsFinite(fy) THEN fy
             ELSE AddExact(fx, fy)

\* x - y
Sub(x, y) == Add(x, Neg(y))

\* 1 / x, with 1/0 = Infinity
Recip(x) ==
    IF isNaN(x) THEN NaN
    ELSE IF ~IsFinite(x) THEN Zero
    ELSE IF x[1] = 0 THEN PosInf
    ELSE IF x[1] < 0 THEN <<-x[2], -x[1]>>
    ELSE <<x[2], x[1]>>

\* x / y
Div(x, y) ==
    IF IsFinite(x) /\ IsFinite(y) /\ x[1] = 0 /\ y[1] = 0 THEN NaN
    ELSE Mul(x, Recip(y))

RECURSIVE CmpFrac(_, _, _, _)
\* the sign of a/b - c/d for b, d > 0, without forming a product
CmpFrac(a, b, c, d) ==
    LET qa == a \div b
        qc == c \div d
        ra == a - qa * b
        rc == c - qc * d
    IN  IF qa # qc THEN (IF qa < qc THEN -1 ELSE 1)
        ELSE IF ra = 0 \/ rc = 0
             THEN (IF ra = rc THEN 0 ELSE IF ra = 0 THEN -1 ELSE 1)
        ELSE CmpFrac(d, rc, b, ra)

\* the sign of x - y for two numbers that are not NaN
Cmp(x, y) ==
    IF ~IsFinite(x) \/ ~IsFinite(y)
    THEN (IF x = y THEN 0
          ELSE IF x = NegInf \/ y = PosInf THEN -1 ELSE 1)
    ELSE CmpFrac(x[1], x[2], y[1], y[2])

\* x < y: false when either side is NaN
Lt(x, y) == ~isNaN(x) /\ ~isNaN(y) /\ Cmp(x, y) < 0

\* x <= y: false when either side is NaN
Le(x, y) == ~isNaN(x) /\ ~isNaN(y) /\ Cmp(x, y) <= 0

\* x === y: false when either side is NaN
Eq(x, y) == ~isNaN(x) /\ ~isNaN(y) /\ x = y

\* Math.max of two numbers: NaN when either is NaN
MathMax(x, y) ==
    IF isNaN(x) \/ isNaN(y) THEN NaN ELSE IF Cmp(x, y) >= 0 THEN x ELSE y

\* Math.min of two numbers: NaN when either is NaN
MathMin(x, y) ==
    IF isNaN(x) \/ isNaN(y) THEN NaN ELSE IF Cmp(x, y) <= 0 THEN x ELSE y

RECURSIVE SqrtScaled(_)
\* the root of an x > 0 that is not a rational square, cut to three
\* significant digits; an x beyond the range stays what it is
SqrtScaled(x) ==
    IF ~IsFinite(x) \/ x[1] = 0 THEN x
    ELSE IF Cmp(x, Num(1000000)) >= 0
    THEN Mul(Num(10), SqrtScaled(Div(x, Num(100))))
    ELSE IF Cmp(x, Num(10000)) < 0
    THEN Div(SqrtScaled(Mul(x, Num(100))), Num(10))
    ELSE Num(ISqrt(x[1] \div x[2]))

\* Math.sqrt: exact when the root is rational, otherwise rounded
MathSqrt(x) ==
    IF isNaN(x) \/ Sign(x) < 0 THEN NaN
    ELSE IF ~IsFinite(x) THEN PosInf
    ELSE IF x[1] = 0 THEN Zero
    ELSE IF IsSquare(x[1]) /\ IsSquare(x[2])
         THEN <<ISqrt(x[1]), ISqrt(x[2])>>
    ELSE SqrtScaled(x)

RECURSIVE MathPow(_, _)
\* Math.pow(x, k) for an integer k >= 0, by repeated squaring
MathPow(x, k) ==
    IF k = 0 THEN One
    ELSE LET h == MathPow(x, k \div 2)
             s == Mul(h, h)
         IN  IF k % 2 = 0 THEN s ELSE Mul(s, x)

\* Math.floor of a finite number, as an integer
MathFloor(x) == x[1] \div x[2]

(***************************************************************************)
(* Sequence helpers                                                        *)
(***************************************************************************)
SeqsUpTo(S, n) == UNION {[1..k -> S] : k \in 0..n}

\* the array with the elements of f, as a sequence that holds its elements
\* (and does not compute them again on every read)
Array(f) == f \o <<>>

\* Array.prototype.slice(from, to) with 0-based bounds, 0 <= from
Slice(arr, from, to) ==
    Array([k \in 1..(MaxInt(0, MinInt(to, Len(arr)) - from)) |-> arr[from + k]])

(***************************************************************************)
(* State                                                                   *)
(***************************************************************************)
VARIABLES
    pc,                 \* the function running and where it stands
    assets,             \* the Asset[] argument
    portfolioMetrics,   \* what calculatePortfolioMetrics returned
    initialValue,       \* runMonteCarloSimulation arguments
    timeHorizon,
    simulations,
    includeMultiPeriod,
    tape,               \* the values Math.random yields, in a cycle
    calls,              \* normalRandom calls made so far
    i,                  \* runMonteCarloSimulation locals
    day,
    portfolioValue,
    finalValues,
    returns,
    mcResult,           \* what runMonteCarloSimulation returned
    rmReturns,          \* calculateRiskMetrics arguments
    marketReturns,
    riskMetrics,        \* what calculateRiskMetrics returned
    criteria,           \* calculateTOPSISRanking argument
    topsisResults,      \* what calculateTOPSISRanking returned
    ahpCriteria,        \* calculateAHPWeights arguments
    pairwiseMatrix,
    weights,            \* calculateAHPWeights locals
    iter,
    ahpResult,          \* what calculateAHPWeights returned
    isRunning,          \* PortfolioAnalyzer state
    resultsState,       \* the state `results` (the name is a parameter below)
    progress,
    progressInterval,   \* the timer runAnalysis started, while it is in scope
    timers,             \* the interval timers that are set
    timerIds,           \* how many timers setInterval has handed out
    toast,              \* the last toast shown
    file,               \* parseExcelFile argument
    promise,            \* the promise parseExcelFile returned
    settleCalls         \* how often resolve or reject was called

pmVars == <<portfolioMetrics>>

mcArgs == <<initialValue, timeHorizon, simulations, includeMultiPeriod, tape>>

mcLocals == <<calls, i, day, portfolioValue, finalValues, returns>>

mcVars == <<mcArgs, mcLocals, mcResult>>

rmVars == <<rmReturns, marketReturns, riskMetrics>>

topsisVars == <<criteria, topsisResults>>

ahpArgs == <<ahpCriteria, pairwiseMatrix>>

ahpLocals == <<weights, iter>>

ahpVars == <<ahpArgs, ahpLocals, ahpResult>>

uiVars == <<isRunning, resultsState, progress, progressInterval, timers, timerIds, toast>>

excelVars == <<file, promise, settleCalls>>

appVars == <<uiVars, excelVars>>

vars == <<pc, assets, pmVars, mcVars, rmVars, topsisVars, ahpVars, appVars>>

\* the value of a variable that holds nothing yet
None == "none"

\* an Asset record
Asset(symbol, weight, expectedReturn, volatility, price) ==
    [symbol |-> symbol, name |-> symbol, weight |-> weight,
     expectedReturn |-> expectedReturn, volatility |-> volatility,
     price |-> price]

PmIdle == portfolioMetrics = None

McIdle ==
    /\ initialValue = None /\ timeHorizon = None /\ simulations = None
    /\ includeMultiPeriod = None /\ tape = None
    /\ calls = None /\ i = None /\ day = None /\ portfolioValue = None
    /\ finalValues = None /\ returns = None /\ mcResult = None

RmIdle == rmReturns = None /\ marketReturns = None /\ riskMetrics = None

TopsisIdle == criteria = None /\ topsisResults = None

AhpIdle ==
    /\ ahpCriteria = None /\ pairwiseMatrix = None
    /\ weights = None /\ iter = None /\ ahpResult = None

UiIdle ==
    /\ isRunning = None /\ resultsState = None /\ progress = None
    /\ progressInterval = None /\ timers = None /\ timerIds = None
    /\ toast = None

ExcelIdle == file = None /\ promise = None /\ settleCalls = None

AppIdle == UiIdle /\ ExcelIdle

(***************************************************************************)
(* calculatePortfolioMetrics                                               *)
(***************************************************************************)
RECURSIVE TotalWeight(_, _)
\* assets.reduce((sum, asset) => sum + asset.weight, 0) over the first k
TotalWeight(as, k) ==
    IF k = 0 THEN Zero ELSE Add(TotalWeight(as, k - 1), as[k].weight)

\* asset.weight / totalWeight
WeightShareUnnormalized(asset, totalWeight) == asset.weight

WeightShare(asset, totalWeight) == Div(asset.weight, totalWeight)

RECURSIVE ReduceExpectedReturn(_, _, _)
ReduceExpectedReturn(as, k, totalWeight) ==
    IF k = 0 THEN Zero
    ELSE Add(ReduceExpectedReturn(as, k - 1, totalWeight),
             Mul(WeightShare(as[k], totalWeight), as[k].expectedReturn))

RECURSIVE ReduceVariance(_, _, _)
ReduceVariance(as, k, totalWeight) ==
    IF k = 0 THEN Zero
    ELSE Add(ReduceVariance(as, k - 1, totalWeight),
             Mul(MathPow(WeightShare(as[k], totalWeight), 2),
                 MathPow(as[k].volatility, 2)))

calculatePortfolioMetrics(as) ==
    LET totalWeight == TotalWeight(as, Len(as))
        expectedReturn == ReduceExpectedReturn(as, Len(as), totalWeight)
        variance == ReduceVariance(as, Len(as), totalWeight)
        volatility == MathSqrt(variance)
    IN  [expectedReturn |-> expectedReturn, volatility |-> volatility]

(***************************************************************************)
(* Specification SpecPM: calculatePortfolioMetrics on bounded asset lists  *)
(***************************************************************************)
MaxAssets == 2

PmWeights == {Zero, One, Num(50)}

PmReturns == {Rat(1, 10), Rat(1, 5)}

PmVolatilities == {Zero, Rat(1, 5), Rat(2, 5)}

PmAssets ==
    {Asset("A", w, r, v, Num(100)) :
        w \in PmWeights, r \in PmReturns, v \in PmVolatilities}

InitPM ==
    /\ pc = "pm_call"
    /\ assets \in SeqsUpTo(PmAssets, MaxAssets)
    /\ PmIdle /\ McIdle /\ RmIdle /\ TopsisIdle /\ AhpIdle /\ AppIdle

CallPortfolioMetrics ==
    /\ pc = "pm_call"
    /\ portfolioMetrics' = calculatePortfolioMetrics(assets)
    /\ pc' = "pm_done"
    /\ UNCHANGED <<assets, mcVars, rmVars, topsisVars, ahpVars, appVars>>

NextPM == CallPortfolioMetrics

SpecPM == InitPM /\ [][NextPM]_vars

(***************************************************************************)
(* Math.random and normalRandom                                            *)
(*                                                                         *)
(* Math.random yields a value of [0, 1), 0 included.  A draw is the pair   *)
(* <<u1, u2>> one normalRandom call reads; the logarithm and the cosine    *)
(* are tabulated on the values the model draws: u1 is 0 or exp(-1/2), u2   *)
(* is 0 or 1/2.  The stream of draws is a tape read in a cycle: the k-th   *)
(* normalRandom call (k from 0) reads tape[(k % Len(tape)) + 1].           *)
(***************************************************************************)
U1Values == {"0", "exp(-1/2)"}

U2Values == {"0", "1/2"}

Draws == U1Values \X U2Values

\* Math.log(u1)
MathLog(u) == IF u = "0" THEN NegInf ELSE Rat(-1, 2)

\* Math.cos(2 * Math.PI * u2)
MathCosTwoPi(u) == IF u = "0" THEN One ELSE Num(-1)

normalRandom(mean, std, draw) ==
    LET u1 == draw[1]
        u2 == draw[2]
        z0 == Mul(MathSqrt(Mul(Num(-2), MathLog(u1))), MathCosTwoPi(u2))
    IN  Add(Mul(z0, std), mean)

\* the draw the k-th normalRandom call reads
DrawAt(tp, k) == tp[(k % Len(tp)) + 1]

(***************************************************************************)
(* runMonteCarloSimulation and calculateMultiPeriodProjections             *)
(***************************************************************************)
TradingDays == 252

RiskFreeRate == Rat(1, 50)

SharpeRatioGuarded(expectedReturn, volatility) ==
    IF volatility = Zero \/ isNaN(volatility) THEN Zero
    ELSE Div(Sub(expectedReturn, RiskFreeRate), volatility)

\* (expectedReturn - riskFreeRate) / volatility
SharpeRatio(expectedReturn, volatility) ==
    Div(Sub(expectedReturn, RiskFreeRate), volatility)

\* expectedReturn / 252
DailyReturn(as) ==
    Div(calculatePortfolioMetrics(as).expectedReturn, Num(TradingDays))

\* volatility / Math.sqrt(252)
DailyVolatility(as) ==
    Div(calculatePortfolioMetrics(as).volatility, MathSqrt(Num(TradingDays)))

\* portfolioValue *= (1 + dailyGrowth)
GrowValue(value, dailyReturn, dailyVolatility, draw) ==
    Mul(value, Add(One, normalRandom(dailyReturn, dailyVolatility, draw)))

\* arr in ascending order, equal elements keeping their order (the sort is
\* stable): the element at index j goes to the position given by the number
\* of elements that come before it
SortAscending(arr) ==
    LET n == Len(arr)
        Position(j) == 1 + Cardinality({k \in 1..n :
                               LET c == Cmp(arr[k], arr[j])
                               IN  c < 0 \/ (c = 0 /\ k < j)})
        placed == {<<Position(j), arr[j]>> : j \in 1..n}
    IN  Array([p \in 1..n |-> (CHOOSE e \in placed : e[1] = p)[2]])

Reorderings(arr) ==
    {[k \in 1..Len(arr) |-> arr[f[k]]] :
        f \in {g \in [1..Len(arr) -> 1..Len(arr)] :
                 \A a, b \in 1..Len(arr) : a # b => g[a] # g[b]}}

\* what [...arr].sort((a, b) => a - b) may return.  Without NaN the
\* comparator is consistent and the result is the ascending order; with a
\* NaN among other values it is not (a - NaN is NaN, taken as 0), and the
\* order is implementation-defined: any permutation.
SortOutcomes(arr) ==
    IF \E k \in 1..Len(arr) : isNaN(arr[k])
    THEN Reorderings(arr)
    ELSE {SortAscending(arr)}

\* sortedValues[Math.floor(q * simulations)] for q = qn/qd
PercentileAt(sortedValues, qn, qd, n) == sortedValues[((qn * n) \div qd) + 1]

Percentiles(sortedValues, n) ==
    [p5  |-> PercentileAt(sortedValues, 1, 20, n),
     p25 |-> PercentileAt(sortedValues, 1, 4, n),
     p50 |-> PercentileAt(sortedValues, 1, 2, n),
     p75 |-> PercentileAt(sortedValues, 3, 4, n),
     p95 |-> PercentileAt(sortedValues, 19, 20, n)]

\* (value - initialValue) / initialValue
RealizedReturn(value, initial) == Div(Sub(value, initial), initial)

periodsWithoutLast ==
    <<[name |-> "1 Year",   days |-> TradingDays],
      [name |-> "3 Years",  days |-> TradingDays * 3],
      [name |-> "5 Years",  days |-> TradingDays * 5],
      [name |-> "10 Years", days |-> TradingDays * 10],
      [name |-> "15 Years", days |-> TradingDays * 15]>>

periods ==
    <<[name |-> "1 Year",   days |-> TradingDays],
      [name |-> "3 Years",  days |-> TradingDays * 3],
      [name |-> "5 Years",  days |-> TradingDays * 5],
      [name |-> "10 Years", days |-> TradingDays * 10],
      [name |-> "15 Years", days |-> TradingDays * 15],
      [name |-> "20 Years", days |-> TradingDays * 20]>>

RECURSIVE StepProduct(_, _, _, _, _)
\* the product of the growth factors of `count` consecutive calls from `from`
StepProduct(dailyReturn, dailyVolatility, tp, from, count) ==
    IF count = 0 THEN One
    ELSE GrowValue(StepProduct(dailyReturn, dailyVolatility, tp, from, count - 1),
                   dailyReturn, dailyVolatility, DrawAt(tp, from + count - 1))

\* The value of a path of `days` daily steps whose first normalRandom call
\* is call number `from`.  The tape repeats after Len(tp) calls, so the
\* product of the daily factors is the product over one cycle raised to the
\* number of whole cycles, times the factors of the remaining calls.
PathValue(initial, dailyReturn, dailyVolatility, tp, from, days) ==
    LET L == Len(tp)
        cycle == StepProduct(dailyReturn, dailyVolatility, tp, from, L)
    IN  Mul(Mul(initial, MathPow(cycle, days \div L)),
            StepProduct(dailyReturn, dailyVolatility, tp,
                        from + (days \div L) * L, days % L))

\* the final values of one horizon, in path order
PeriodFinalValues(initial, dailyReturn, dailyVolatility, n, tp, from, days) ==
    Array([j \in 1..n |->
        PathValue(initial, dailyReturn, dailyVolatility, tp,
                  from + (j - 1) * days, days)])

RECURSIVE RootSearch(_, _, _, _)
RootSearch(x, k, lo, hi) ==
    IF lo >= hi THEN lo
    ELSE LET mid == (lo + hi + 1) \div 2
         IN  IF Le(MathPow(Rat(mid, 1000), k), x)
             THEN RootSearch(x, k, mid, hi)
             ELSE RootSearch(x, k, lo, mid - 1)

\* Math.pow(x, 1 / k) for an integer k >= 1: x itself for k = 1, NaN for a
\* negative x, otherwise the root cut to a multiple of 1/1000
MathRoot(x, k) ==
    IF k = 1 \/ isNaN(x) THEN x
    ELSE IF Sign(x) < 0 THEN NaN
    ELSE IF ~IsFinite(x) THEN PosInf
    ELSE Rat(RootSearch(x, k, 0, 1000000), 1000)

LossCountOrEqual(values, initial) ==
    Cardinality({j \in 1..Len(values) : Le(values[j], initial)})

\* value < initialValue, counted over the final values
LossCount(values, initial) ==
    Cardinality({j \in 1..Len(values) : Lt(values[j], initial)})

\* one element of periods.map(...), given the sorted copy
Projection(period, values, sortedValues, initial, n) ==
    LET percentiles == Percentiles(sortedValues, n)
        pct(v) == Mul(RealizedReturn(v, initial), Num(100))
        years == period.days \div TradingDays
    IN  [period |-> period.name,
         timeHorizonDays |-> period.days,
         percentiles |-> percentiles,
         totalReturn |-> [p5 |-> pct(percentiles.p5), p25 |-> pct(percentiles.p25),
                          p50 |-> pct(percentiles.p50), p75 |-> pct(percentiles.p75),
                          p95 |-> pct(percentiles.p95)],
         annualizedReturn |->
             Mul(Sub(MathRoot(Div(percentiles.p50, initial), years), One), Num(100)),
         probabilityOfLoss |->
             Mul(Div(Num(LossCount(values, initial)), Num(n)), Num(100))]

\* the number of normalRandom calls the horizons before the k-th make
CallsBefore(k, n) ==
    LET RECURSIVE Total(_)
        Total(m) == IF m = 0 THEN 0 ELSE Total(m - 1) + n * periods[m].days
    IN  Total(k - 1)

RECURSIVE ProjectionOutcomes(_, _, _, _, _, _, _)
\* what periods.map(...) may return for the first k periods, the first
\* normalRandom call being call number `from`
ProjectionOutcomes(initial, dailyReturn, dailyVolatility, n, tp, from, k) ==
    IF k = 0 THEN {<<>>}
    ELSE LET values == PeriodFinalValues(initial, dailyReturn, dailyVolatility,
                           n, tp, from + CallsBefore(k, n), periods[k].days)
         IN  {Append(before, Projection(periods[k], values, sorted, initial, n)) :
                 before \in ProjectionOutcomes(initial, dailyReturn,
                                dailyVolatility, n, tp, from, k - 1),
                 sorted \in SortOutcomes(values)}

calculateMultiPeriodProjections(as, initial, n, tp, from) ==
    LET dailyReturn == DailyReturn(as)
        dailyVolatility == DailyVolatility(as)
    IN  ProjectionOutcomes(initial, dailyReturn, dailyVolatility, n, tp, from,
                           Len(periods))

\* the finalValues field of the result: the array the loop filled
ReturnedFinalValuesSorted(values, sortedValues) == sortedValues

ReturnedFinalValues(values, sortedValues) == values

\* the record runMonteCarloSimulation returns
MonteCarloResult(as, initial, horizon, n, values, rets, sortedValues, projections) ==
    LET metrics == calculatePortfolioMetrics(as)
    IN  [finalValues |-> ReturnedFinalValues(values, sortedValues),
         returns |-> rets,
         percentiles |-> Percentiles(sortedValues, n),
         var95 |-> MathAbs(RealizedReturn(PercentileAt(sortedValues, 1, 20, n), initial)),
         expectedReturn |-> metrics.expectedReturn,
         volatility |-> metrics.volatility,
         sharpeRatio |-> SharpeRatio(metrics.expectedReturn, metrics.volatility),
         timeHorizonDays |-> horizon,
         multiPeriodProjections |-> projections]

(***************************************************************************)
(* Specification SpecMC: runMonteCarloSimulation, one loop step at a time  *)
(***************************************************************************)
MaxSimulations == 3

MaxHorizon == 2

MaxTape == 2

\* portfolios whose daily return and volatility are short fractions:
\* 0.504 / 252 = 1/500 and 0.158 / sqrt(252) = 1/100; the fourth has return
\* 0 and volatility 0, so that its paths end on initialValue exactly
McPortfolios ==
    { <<Asset("A", Num(50), Rat(63, 125), Rat(79, 500), Num(100))>>,
      <<Asset("A", Num(50), Rat(63, 125), Zero, Num(100))>>,
      <<Asset("A", Zero, Rat(63, 125), Rat(79, 500), Num(100))>>,
      <<Asset("A", One, Rat(63, 125), Zero, Num(100)),
        Asset("B", One, Rat(-63, 125), Zero, Num(100))>>,
      <<Asset("A", One, Rat(63, 125), Rat(79, 250), Num(100)),
        Asset("B", One, Rat(63, 125), Zero, Num(100))>> }

McInitialValues == {Num(100)}

\* a tape whose length does not divide 252, so that the paths of one
\* horizon read different draws: z0 is 1, 1, -1, -1, -1 in a cycle
LongTapes ==
    { << <<"exp(-1/2)", "0">>, <<"exp(-1/2)", "0">>, <<"exp(-1/2)", "1/2">>,
         <<"exp(-1/2)", "1/2">>, <<"exp(-1/2)", "1/2">> >> }

Tapes == UNION {[1..k -> Draws] : k \in 1..MaxTape} \cup LongTapes

\* the tapes of the calls that ask for the projections: a constant stream
\* of draws, or the long tape
ProjectionTapes == [1..1 -> Draws] \cup LongTapes

InitMC ==
    /\ pc = "mc_call"
    /\ assets \in McPortfolios
    /\ initialValue \in McInitialValues
    /\ timeHorizon \in 1..MaxHorizon
    /\ simulations \in 1..MaxSimulations
    /\ includeMultiPeriod \in BOOLEAN
    /\ tape \in (IF includeMultiPeriod THEN ProjectionTapes ELSE Tapes)
    /\ calls = None /\ i = None /\ day = None /\ portfolioValue = None
    /\ finalValues = None /\ returns = None /\ mcResult = None
    /\ PmIdle /\ RmIdle /\ TopsisIdle /\ AhpIdle /\ AppIdle

\* entry: the arrays are empty and the first path starts at initialValue
McEnter ==
    /\ pc = "mc_call"
    /\ pc' = "mc_loop"
    /\ calls' = 0 /\ i' = 0 /\ day' = 0
    /\ portfolioValue' = initialValue
    /\ finalValues' = <<>>
    /\ returns' = <<>>
    /\ UNCHANGED <<assets, pmVars, mcArgs, mcResult, rmVars, topsisVars, ahpVars, appVars>>

\* one iteration of the inner loop
McDay ==
    /\ pc = "mc_loop"
    /\ i < simulations
    /\ day < timeHorizon
    /\ portfolioValue' = GrowValue(portfolioValue, DailyReturn(assets),
                                   DailyVolatility(assets), DrawAt(tape, calls))
    /\ calls' = calls + 1
    /\ day' = day + 1
    /\ UNCHANGED <<pc, assets, pmVars, mcArgs, i, finalValues, returns,
                   mcResult, rmVars, topsisVars, ahpVars, appVars>>

\* the end of one path: both pushes, and the next path's start
McPathEnd ==
    /\ pc = "mc_loop"
    /\ i < simulations
    /\ day >= timeHorizon
    /\ finalValues' = Append(finalValues, portfolioValue)
    /\ returns' = Append(returns, RealizedReturn(portfolioValue, initialValue))
    /\ i' = i + 1
    /\ day' = 0
    /\ portfolioValue' = initialValue
    /\ UNCHANGED <<pc, assets, pmVars, mcArgs, calls, mcResult, rmVars, topsisVars, ahpVars, appVars>>

\* after the loop: the sorted copies, the statistics, the projections
McFinish ==
    /\ pc = "mc_loop"
    /\ i >= simulations
    /\ \E sortedValues \in SortOutcomes(finalValues) :
       \E projections \in
              (IF includeMultiPeriod
               THEN calculateMultiPeriodProjections(assets, initialValue,
                        simulations, tape, calls)
               ELSE {None}) :
          mcResult' = MonteCarloResult(assets, initialValue, timeHorizon,
                          simulations, finalValues, returns, sortedValues,
                          projections)
    /\ pc' = "mc_done"
    /\ UNCHANGED <<assets, pmVars, mcArgs, mcLocals, rmVars, topsisVars, ahpVars, appVars>>

NextMC == McEnter \/ McDay \/ McPathEnd \/ McFinish

SpecMC == InitMC /\ [][NextMC]_vars

(***************************************************************************)
(* calculateRiskMetrics                                                    *)
(***************************************************************************)
\* arr[k] for a 0-based k, read as a number: an index past the end reads
\* undefined, which Math.abs and the arithmetic operators take as NaN
At(arr, k) == IF k < Len(arr) THEN arr[k + 1] ELSE NaN

RECURSIVE SumFrom(_, _, _, _)
\* acc + arr[lo] + ... + arr[hi], added from left to right: the left half
\* first, then the right half onto its result
SumFrom(acc, arr, lo, hi) ==
    IF lo > hi THEN acc
    ELSE IF lo = hi THEN Add(acc, arr[lo])
    ELSE LET mid == (lo + hi) \div 2
         IN  CHOOSE sum \in {SumFrom(left, arr, mid + 1, hi) :
                             left \in {SumFrom(acc, arr, lo, mid)}} : TRUE

\* arr.reduce((sum, r) => sum + r, 0) over the first k elements
Sum(arr, k) == SumFrom(Zero, arr, 1, k)

\* Math.floor(0.05 * returns.length)
Var95Index(rets) == Len(rets) \div 20

\* Math.abs(sortedReturns[var95Index])
Var95(sortedReturns, var95Index) == MathAbs(At(sortedReturns, var95Index))

TailMeanThroughIndex(sortedReturns, var95Index) ==
    LET tail == Slice(sortedReturns, 0, var95Index + 1)
    IN  Div(Sum(tail, Len(tail)), Num(var95Index + 1))

\* sortedReturns.slice(0, var95Index).reduce(...) / var95Index
TailMean(sortedReturns, var95Index) ==
    LET tail == Slice(sortedReturns, 0, var95Index)
    IN  Div(Sum(tail, Len(tail)), Num(var95Index))

\* Math.abs(tail mean)
CVar95(sortedReturns, var95Index) == MathAbs(TailMean(sortedReturns, var95Index))

RECURSIVE DrawdownLoop(_, _, _, _)
\* <<runningMax, maxDrawdown>> after the loop body has run for the 1-based
\* positions lo..hi, entered with the pair st
DrawdownLoop(st, rets, lo, hi) ==
    IF lo > hi THEN st
    ELSE IF lo = hi
    THEN LET runningMax == MathMax(st[1], rets[lo])
             drawdown == Div(Sub(runningMax, rets[lo]), runningMax)
         IN  <<runningMax, MathMax(st[2], drawdown)>>
    ELSE LET mid == (lo + hi) \div 2
         IN  CHOOSE after \in {DrawdownLoop(left, rets, mid + 1, hi) :
                               left \in {DrawdownLoop(st, rets, lo, mid)}} : TRUE

\* runningMax starts at returns[0], maxDrawdown at 0, the loop at i = 1
MaxDrawdown(rets) == DrawdownLoop(<<At(rets, 0), Zero>>, rets, 2, Len(rets))[2]

RECURSIVE Covariance(_, _, _, _, _, _, _)
\* acc plus the sum over the positions lo..hi of (x - xMean) * (y - yMean),
\* added from left to right
Covariance(acc, xs, xMean, ys, yMean, lo, hi) ==
    IF lo > hi THEN acc
    ELSE IF lo = hi
    THEN Add(acc, Mul(Sub(xs[lo], xMean), Sub(ys[lo], yMean)))
    ELSE LET mid == (lo + hi) \div 2
         IN  CHOOSE sum \in {Covariance(left, xs, xMean, ys, yMean, mid + 1, hi) :
                             left \in {Covariance(acc, xs, xMean, ys, yMean,
                                                  lo, mid)}} : TRUE

\* an optional argument: <<>> when it is left out, <<value>> when passed
Omitted == <<>>

Passed(value) == <<value>>

BetaDefaultZero(rets, marketArg) ==
    IF marketArg # Omitted /\ Len(marketArg[1]) = Len(rets)
    THEN LET market == marketArg[1]
             marketMean == Div(Sum(market, Len(market)), Num(Len(market)))
             portfolioMean == Div(Sum(rets, Len(rets)), Num(Len(rets)))
             covariance == Covariance(Zero, rets, portfolioMean, market,
                                      marketMean, 1, Len(rets))
             marketVariance == Covariance(Zero, market, marketMean, market,
                                          marketMean, 1, Len(market))
         IN  Div(covariance, marketVariance)
    ELSE Zero

\* beta: 1.0 unless marketReturns is passed with the length of returns
Beta(rets, marketArg) ==
    IF marketArg # Omitted /\ Len(marketArg[1]) = Len(rets)
    THEN LET market == marketArg[1]
             marketMean == Div(Sum(market, Len(market)), Num(Len(market)))
             portfolioMean == Div(Sum(rets, Len(rets)), Num(Len(rets)))
             covariance == Covariance(Zero, rets, portfolioMean, market,
                                      marketMean, 1, Len(rets))
             marketVariance == Covariance(Zero, market, marketMean, market,
                                          marketMean, 1, Len(market))
         IN  Div(covariance, marketVariance)
    ELSE One

ReturnsSortedInPlace(rets, sortedReturns) == sortedReturns

\* [...returns].sort(...): the sort orders a copy, and the caller's array
\* keeps its order
ReturnsAfterSort(rets, sortedReturns) == rets

\* the record calculateRiskMetrics returns, given the sorted copy
RiskMetricsResult(as, rets, market, sortedReturns) ==
    LET metrics == calculatePortfolioMetrics(as)
        var95Index == Var95Index(rets)
    IN  [portfolioReturn |-> metrics.expectedReturn,
         portfolioVolatility |-> metrics.volatility,
         sharpeRatio |-> SharpeRatio(metrics.expectedReturn, metrics.volatility),
         var95 |-> Var95(sortedReturns, var95Index),
         cvar95 |-> CVar95(sortedReturns, var95Index),
         maxDrawdown |-> MaxDrawdown(rets),
         beta |-> Beta(rets, market)]

(***************************************************************************)
(* Specification SpecRM: calculateRiskMetrics on bounded return series     *)
(***************************************************************************)
MaxPrefix == 2

RmValues == {Rat(-1, 20), Rat(-1, 100), Zero, Rat(1, 50)}

\* how many copies of one value follow the prefix: none, or enough to take
\* the series to and past the 20 entries that make the tail index 1
RmPads == {0, 19, 40}

\* a return series: a short prefix followed by copies of one value
RmSeries ==
    {pre \o [k \in 1..pad |-> fill] :
        pre \in SeqsUpTo(RmValues, MaxPrefix), pad \in RmPads, fill \in RmValues}

RmPortfolios ==
    { <<Asset("A", Num(50), Rat(63, 125), Rat(79, 500), Num(100))>>,
      <<Asset("A", Num(50), Rat(63, 125), Zero, Num(100))>> }

\* marketReturns: absent, the series itself, the series backwards, a
\* constant series of the same length, or a series of another length
RmMarkets(rets) ==
    {Omitted, Passed(rets),
     Passed([k \in 1..Len(rets) |-> rets[Len(rets) + 1 - k]]),
     Passed([k \in 1..Len(rets) |-> Rat(1, 100)]),
     Passed(Append(rets, Zero))}

InitRM ==
    /\ pc = "rm_call"
    /\ assets \in RmPortfolios
    /\ rmReturns \in RmSeries
    /\ marketReturns \in RmMarkets(rmReturns)
    /\ riskMetrics = None
    /\ PmIdle /\ McIdle /\ TopsisIdle /\ AhpIdle /\ AppIdle

CallRiskMetrics ==
    /\ pc = "rm_call"
    /\ \E sortedReturns \in SortOutcomes(rmReturns) :
          /\ riskMetrics' = RiskMetricsResult(assets, rmReturns, marketReturns,
                                              sortedReturns)
          /\ rmReturns' = ReturnsAfterSort(rmReturns, sortedReturns)
    /\ pc' = "rm_done"
    /\ UNCHANGED <<assets, pmVars, mcVars, marketReturns, topsisVars, ahpVars, appVars>>

NextRM == CallRiskMetrics

SpecRM == InitRM /\ [][NextRM]_vars

(***************************************************************************)
(* Specification SpecDegenerate: runMonteCarloSimulation and               *)
(* calculateRiskMetrics on the portfolios whose volatility is 0 or whose   *)
(* total weight is 0                                                       *)
(***************************************************************************)
DegeneratePortfolios ==
    { <<Asset("A", Num(50), Rat(63, 125), Zero, Num(100))>>,
      <<Asset("A", Zero, Rat(63, 125), Rat(79, 500), Num(100))>>,
      <<Asset("A", One, Rat(1, 50), Zero, Num(100)),
        Asset("B", One, Rat(1, 50), Zero, Num(100))>>,
      <<Asset("A", One, Rat(63, 125), Zero, Num(100)),
        Asset("B", One, Rat(-63, 125), Zero, Num(100))>> }

InitDegenerate ==
    /\ assets \in DegeneratePortfolios
    /\ \/ /\ pc = "mc_call"
          /\ initialValue \in McInitialValues
          /\ timeHorizon \in 1..MaxHorizon
          /\ simulations \in 1..MaxSimulations
          /\ includeMultiPeriod \in BOOLEAN
          /\ tape \in [1..1 -> Draws]
          /\ calls = None /\ i = None /\ day = None /\ portfolioValue = None
          /\ finalValues = None /\ returns = None /\ mcResult = None
          /\ PmIdle /\ RmIdle /\ TopsisIdle /\ AhpIdle /\ AppIdle
       \/ /\ pc = "rm_call"
          /\ rmReturns \in SeqsUpTo(RmValues, MaxPrefix)
          /\ marketReturns \in RmMarkets(rmReturns)
          /\ riskMetrics = None
          /\ PmIdle /\ McIdle /\ TopsisIdle /\ AhpIdle /\ AppIdle

NextDegenerate == NextMC \/ NextRM

SpecDegenerate == InitDegenerate /\ [][NextDegenerate]_vars

(***************************************************************************)
(* calculateTOPSISRanking                                                  *)
(***************************************************************************)
\* a TOPSISCriteria record; name is None for a criterion that has no name
Criterion(name, weight, beneficial) ==
    [name |-> name, weight |-> weight, beneficial |-> beneficial]

\* String.prototype.toLowerCase on the names in use
ToLowerCase(name) ==
    CASE name = "Return" -> "return"
      [] name = "Volatility" -> "volatility"
      [] name = "expectedReturn" -> "expectedreturn"
      [] name = "sharpeRatio" -> "sharperatio"
      [] OTHER -> name

\* what the switch on criterion.name.toLowerCase() pushes on the row
CriterionValue(asset, criterion) ==
    LET label == ToLowerCase(criterion.name)
    IN  CASE label \in {"return", "expectedReturn"} -> asset.expectedReturn
          [] label \in {"volatility", "risk"} -> asset.volatility
          [] label \in {"sharpe", "sharperatio"} ->
                Div(Sub(asset.expectedReturn, RiskFreeRate), asset.volatility)
          [] label = "price" -> asset.price
          [] OTHER -> Zero

\* decisionMatrix: one row per asset, one column per criterion
DecisionMatrix(as, crit) ==
    Array([a \in 1..Len(as) |->
        Array([j \in 1..Len(crit) |-> CriterionValue(as[a], crit[j])])])

RECURSIVE SumOfSquares(_, _, _)
\* decisionMatrix.reduce((sum, row) => sum + Math.pow(row[j], 2), 0) over
\* the first k rows
SumOfSquares(matrix, j, k) ==
    IF k = 0 THEN Zero
    ELSE Add(SumOfSquares(matrix, j, k - 1), MathPow(matrix[k][j], 2))

Denominator(matrix, j) == MathSqrt(SumOfSquares(matrix, j, Len(matrix)))

\* denominator !== 0 ? decisionMatrix[i][j] / denominator : 0
NormalizedValue(value, denominator) ==
    IF denominator # Zero THEN Div(value, denominator) ELSE Zero

NormalizedMatrix(matrix, m) ==
    LET denominators == Array([j \in 1..m |-> Denominator(matrix, j)])
    IN  Array([a \in 1..Len(matrix) |->
            Array([j \in 1..m |-> NormalizedValue(matrix[a][j], denominators[j])])])

WeightedMatrix(normalized, crit) ==
    Array([a \in 1..Len(normalized) |->
        Array([j \in 1..Len(crit) |-> Mul(normalized[a][j], crit[j].weight)])])

RECURSIVE MaxOf(_, _)
\* Math.max(...values) over the first k values
MaxOf(values, k) ==
    IF k = 0 THEN NegInf ELSE MathMax(MaxOf(values, k - 1), values[k])

RECURSIVE MinOf(_, _)
\* Math.min(...values) over the first k values
MinOf(values, k) ==
    IF k = 0 THEN PosInf ELSE MathMin(MinOf(values, k - 1), values[k])

ColumnValues(weighted, j) == Array([a \in 1..Len(weighted) |-> weighted[a][j]])

\* idealSolution[j]
IdealValue(weighted, criterion, j) ==
    IF criterion.beneficial
    THEN MaxOf(ColumnValues(weighted, j), Len(weighted))
    ELSE MinOf(ColumnValues(weighted, j), Len(weighted))

\* negativeIdealSolution[j]
NegativeIdealValue(weighted, criterion, j) ==
    IF criterion.beneficial
    THEN MinOf(ColumnValues(weighted, j), Len(weighted))
    ELSE MaxOf(ColumnValues(weighted, j), Len(weighted))

RECURSIVE SquaredDistance(_, _, _)
\* row.reduce((sum, value, j) => sum + Math.pow(value - target[j], 2), 0)
\* over the first k columns
SquaredDistance(row, target, k) ==
    IF k = 0 THEN Zero
    ELSE Add(SquaredDistance(row, target, k - 1),
             MathPow(Sub(row[k], target[k]), 2))

Distance(row, target) == MathSqrt(SquaredDistance(row, target, Len(row)))

ScoreUnchecked(distanceToIdeal, distanceToNegative) ==
    Div(distanceToNegative, Add(distanceToIdeal, distanceToNegative))

\* distanceToNegative / (distanceToIdeal + distanceToNegative), and 0 in
\* place of NaN
Score(distanceToIdeal, distanceToNegative) ==
    LET score == Div(distanceToNegative, Add(distanceToIdeal, distanceToNegative))
    IN  IF isNaN(score) THEN Zero ELSE score

\* the results array before it is sorted: rank is still 0
UnrankedResults(as, crit) ==
    LET weighted == WeightedMatrix(
                        NormalizedMatrix(DecisionMatrix(as, crit), Len(crit)),
                        crit)
        idealSolution ==
            Array([j \in 1..Len(crit) |-> IdealValue(weighted, crit[j], j)])
        negativeIdealSolution ==
            Array([j \in 1..Len(crit) |-> NegativeIdealValue(weighted, crit[j], j)])
    IN  Array([a \in 1..Len(as) |->
            LET distanceToIdeal == Distance(weighted[a], idealSolution)
                distanceToNegative == Distance(weighted[a], negativeIdealSolution)
            IN  [assetIndex |-> a - 1,
                 symbol |-> as[a].symbol,
                 score |-> Score(distanceToIdeal, distanceToNegative),
                 rank |-> 0,
                 distanceToIdeal |-> distanceToIdeal,
                 distanceToNegative |-> distanceToNegative]])

SortByScoreKeepingOrder(results) == results

\* results.sort((a, b) => b.score - a.score): the scores are never NaN, so
\* the comparator is consistent and the stable sort puts the higher score
\* first and leaves equal scores in their order
SortByScore(results) ==
    LET n == Len(results)
        Position(j) == 1 + Cardinality({k \in 1..n :
                               LET c == Cmp(results[k].score, results[j].score)
                               IN  c > 0 \/ (c = 0 /\ k < j)})
        placed == {<<Position(j), results[j]>> : j \in 1..n}
    IN  Array([p \in 1..n |-> (CHOOSE e \in placed : e[1] = p)[2]])

\* results.forEach((result, index) => { result.rank = index + 1 })
AssignRanks(results) ==
    Array([p \in 1..Len(results) |-> [results[p] EXCEPT !.rank = p]])

FallbackResultsUnranked(as) ==
    Array([a \in 1..Len(as) |->
        [assetIndex |-> a - 1, symbol |-> as[a].symbol, score |-> Zero,
         rank |-> 0, distanceToIdeal |-> Zero, distanceToNegative |-> Zero]])

\* what the catch block returns
FallbackResults(as) ==
    Array([a \in 1..Len(as) |->
        [assetIndex |-> a - 1, symbol |-> as[a].symbol, score |-> Zero,
         rank |-> a, distanceToIdeal |-> Zero, distanceToNegative |-> Zero]])

\* the try block throws a TypeError: on criterion.name.toLowerCase() when a
\* name is undefined, and on weightedMatrix[i].reduce when there are assets
\* but no criteria, so that normalizedMatrix never got a row
Throws(as, crit) ==
    /\ Len(as) >= 1
    /\ \/ Len(crit) = 0
       \/ \E j \in 1..Len(crit) : crit[j].name = None

calculateTOPSISRanking(as, crit) ==
    IF Throws(as, crit) THEN FallbackResults(as)
    ELSE AssignRanks(SortByScore(UnrankedResults(as, crit)))

(***************************************************************************)
(* Specification SpecTOPSIS: calculateTOPSISRanking on bounded lists       *)
(***************************************************************************)
MaxRanked == 3

MaxCriteria == 2

TopsisAssets ==
    { Asset("A", Num(25), Rat(3, 20), Rat(1, 10), Num(50)),
      Asset("B", Num(25), Rat(1, 20), Rat(1, 5), Num(100)),
      Asset("C", Num(25), Rat(1, 10), Zero, Num(100)) }

TopsisCriteria ==
    { Criterion("Return", Rat(2, 5), TRUE),
      Criterion("Volatility", Rat(3, 10), FALSE),
      Criterion("sharpe", Rat(1, 5), TRUE),
      Criterion("price", Zero, FALSE),
      Criterion("expectedReturn", Rat(1, 10), TRUE),
      Criterion(None, Rat(1, 5), TRUE) }

InitTOPSIS ==
    /\ pc = "topsis_call"
    /\ assets \in SeqsUpTo(TopsisAssets, MaxRanked)
    /\ criteria \in SeqsUpTo(TopsisCriteria, MaxCriteria)
    /\ topsisResults = None
    /\ PmIdle /\ McIdle /\ RmIdle /\ AhpIdle /\ AppIdle

CallTOPSISRanking ==
    /\ pc = "topsis_call"
    /\ topsisResults' = calculateTOPSISRanking(assets, criteria)
    /\ pc' = "topsis_done"
    /\ UNCHANGED <<assets, pmVars, mcVars, rmVars, criteria, ahpVars, appVars>>

NextTOPSIS == CallTOPSISRanking

SpecTOPSIS == InitTOPSIS /\ [][NextTOPSIS]_vars

(***************************************************************************)
(* calculateAHPWeights                                                     *)
(***************************************************************************)
\* for (let iter = 0; iter < 100; iter++)
MaxIterations == 100

\* if (diff < 1e-6) break
ConvergenceThreshold == Rat(1, 1000000)

\* [0, 0, 0.58, 0.9, 1.12, 1.24, 1.32, 1.41]
RandomIndexTable ==
    <<Zero, Zero, Rat(29, 50), Rat(9, 10), Rat(28, 25), Rat(31, 25),
      Rat(33, 25), Rat(141, 100)>>

\* [...][n] || 1.41: the entry at index n, and 1.41 when it is 0 or when
\* there is none
RandomIndex(n) ==
    IF n < Len(RandomIndexTable) /\ RandomIndexTable[n + 1] # Zero
    THEN RandomIndexTable[n + 1]
    ELSE Rat(141, 100)

\* new Array(n).fill(value)
Fill(n, value) == [k \in 1..n |-> value]

\* pairwiseMatrix[i] is undefined for some i < n, and reading its element j
\* raises a TypeError
RowMissing(matrix, n) == n >= 1 /\ Len(matrix) < n

\* pairwiseMatrix[i][j] * weights[j]; an element the row does not have is
\* undefined, and its product is NaN
EntryTimesWeight(matrix, ws, row, col) ==
    IF col <= Len(matrix[row]) THEN Mul(matrix[row][col], ws[col]) ELSE NaN

RECURSIVE RowProduct(_, _, _, _)
\* the inner loop over j, for the first k columns, starting from 0
RowProduct(matrix, ws, row, k) ==
    IF k = 0 THEN Zero
    ELSE Add(RowProduct(matrix, ws, row, k - 1),
             EntryTimesWeight(matrix, ws, row, k))

\* newWeights after the two nested loops
MatrixTimesWeights(matrix, ws, n) ==
    Array([row \in 1..n |-> RowProduct(matrix, ws, row, n)])

NormalizeSkipped(newWeights) == newWeights

\* newWeights[i] /= sum
Normalize(newWeights) ==
    LET sum == Sum(newWeights, Len(newWeights))
    IN  Array([k \in 1..Len(newWeights) |-> Div(newWeights[k], sum)])

RECURSIVE Difference(_, _, _)
\* weights.reduce((acc, w, i) => acc + Math.abs(w - newWeights[i]), 0)
Difference(ws, newWeights, k) ==
    IF k = 0 THEN Zero
    ELSE Add(Difference(ws, newWeights, k - 1),
             MathAbs(Sub(ws[k], newWeights[k])))

\* one pass of the power method: the normalized product
NextWeights(matrix, ws) == Normalize(MatrixTimesWeights(matrix, ws, Len(ws)))

ConvergedNever(ws, newWeights) == FALSE

\* the test that breaks out of the loop
Converged(ws, newWeights) ==
    Lt(Difference(ws, newWeights, Len(ws)), ConvergenceThreshold)

RECURSIVE LambdaSum(_, _, _)
\* lambda += sum / weights[i], over the first k rows
LambdaSum(matrix, ws, k) ==
    IF k = 0 THEN Zero
    ELSE Add(LambdaSum(matrix, ws, k - 1),
             Div(RowProduct(matrix, ws, k, Len(ws)), ws[k]))

\* lambda /= n
Lambda(matrix, ws) == Div(LambdaSum(matrix, ws, Len(ws)), Num(Len(ws)))

\* ci / ri, without a case for n = 1
ConsistencyRatio(matrix, ws) ==
    LET n == Len(ws)
        ci == Div(Sub(Lambda(matrix, ws), Num(n)), Num(n - 1))
    IN  Div(ci, RandomIndex(n))

\* the catch branch
UniformFallback(names) ==
    [weights |-> Fill(Len(names), Div(One, Num(Len(names)))),
     consistencyRatio |-> Zero]

(***************************************************************************)
(* Specification SpecAHP: one call of calculateAHPWeights, one pass of the *)
(* power method per step                                                   *)
(***************************************************************************)
MaxNames == 3

WeightUnits == 1..3

RECURSIVE SumInts(_, _)
SumInts(units, k) == IF k = 0 THEN 0 ELSE SumInts(units, k - 1) + units[k]

\* the weight vectors in proportion to small integers: positive, of sum 1
WeightVectors ==
    {[k \in 1..Len(units) |-> Rat(units[k], SumInts(units, Len(units)))] :
         units \in UNION {[1..n -> WeightUnits] : n \in 1..MaxNames}}

\* a[i][j] = w_i / w_j
ConsistentMatrix(w) ==
    [row \in 1..Len(w) |-> [col \in 1..Len(w) |-> Div(w[row], w[col])]]

\* the matrix without its last row
WithoutLastRow(matrix) == SubSeq(matrix, 1, Len(matrix) - 1)

\* the matrix whose last row lacks its last entry
WithShortRow(matrix) ==
    [matrix EXCEPT ![Len(matrix)] = SubSeq(@, 1, Len(@) - 1)]

\* n criteria names
FirstNames(n) ==
    SubSeq(<<"return", "volatility", "sharpe", "price", "liquidity">>, 1, n)

\* the matrix of the ratios of w, well formed or not
AhpMatrices(w) ==
    {ConsistentMatrix(w), WithoutLastRow(ConsistentMatrix(w)),
     WithShortRow(ConsistentMatrix(w))}

\* positive matrices that are not the ratios of any weights: judgements
\* that go round in a circle, a matrix that is not reciprocal, and one whose
\* principal eigenvector is irrational
InconsistentMatrices ==
    { << <<One, Num(2), Rat(1, 2)>>, <<Rat(1, 2), One, Num(2)>>,
         <<Num(2), Rat(1, 2), One>> >>,
      << <<One, Num(2)>>, <<Num(2), One>> >>,
      << <<One, Num(3)>>, <<Rat(1, 2), One>> >> }

\* the calls: n names with a matrix for n names, and no name with no row
AhpInputs ==
    UNION {{<<FirstNames(Len(w)), matrix>> : matrix \in AhpMatrices(w)} :
               w \in WeightVectors}
    \cup {<<FirstNames(Len(matrix)), matrix>> : matrix \in InconsistentMatrices}
    \cup {<<FirstNames(0), <<>>>>}

\* the slot of the return value while the call is running
NotReturned == [weights |-> <<>>, consistencyRatio |-> NaN]

InitAHP ==
    /\ pc = "ahp_call"
    /\ assets = None
    /\ \E input \in AhpInputs :
          ahpCriteria = input[1] /\ pairwiseMatrix = input[2]
    /\ weights = <<>> /\ iter = 0 /\ ahpResult = NotReturned
    /\ PmIdle /\ McIdle /\ RmIdle /\ TopsisIdle /\ AppIdle

\* entry: the uniform start
AhpEnter ==
    /\ pc = "ahp_call"
    /\ weights' = Fill(Len(ahpCriteria), Div(One, Num(Len(ahpCriteria))))
    /\ iter' = 0
    /\ pc' = "ahp_loop"
    /\ UNCHANGED <<assets, pmVars, mcVars, rmVars, topsisVars, appVars, ahpArgs, ahpResult>>

\* one pass of the loop on a matrix that lacks a row: the TypeError, caught
AhpCatch ==
    /\ pc = "ahp_loop"
    /\ iter < MaxIterations
    /\ RowMissing(pairwiseMatrix, Len(ahpCriteria))
    /\ ahpResult' = UniformFallback(ahpCriteria)
    /\ pc' = "ahp_done"
    /\ UNCHANGED <<assets, pmVars, mcVars, rmVars, topsisVars, appVars, ahpArgs, ahpLocals>>

\* one pass of the loop; after a break, iter stays and the loop is left
AhpIterate ==
    /\ pc = "ahp_loop"
    /\ iter < MaxIterations
    /\ ~RowMissing(pairwiseMatrix, Len(ahpCriteria))
    /\ \E newWeights \in {NextWeights(pairwiseMatrix, weights)} :
          /\ weights' = newWeights
          /\ IF Converged(weights, newWeights)
             THEN pc' = "ahp_after" /\ iter' = iter
             ELSE pc' = pc /\ iter' = iter + 1
    /\ UNCHANGED <<assets, pmVars, mcVars, rmVars, topsisVars, appVars, ahpArgs, ahpResult>>

\* after the loop: lambda, the consistency ratio, the return
AhpFinish ==
    /\ \/ pc = "ahp_after"
       \/ pc = "ahp_loop" /\ iter >= MaxIterations
    /\ ahpResult' = [weights |-> weights,
                     consistencyRatio |-> ConsistencyRatio(pairwiseMatrix, weights)]
    /\ pc' = "ahp_done"
    /\ UNCHANGED <<assets, pmVars, mcVars, rmVars, topsisVars, appVars, ahpArgs, ahpLocals>>

NextAHP == AhpEnter \/ AhpCatch \/ AhpIterate \/ AhpFinish

SpecAHP == InitAHP /\ [][NextAHP]_vars

\* the call runs to its end: the loop and the statements after it are
\* synchronous code
AhpRunning == pc \in {"ahp_call", "ahp_loop", "ahp_after"}

\* the next statement of a running call is executed: each of AhpEnter,
\* AhpCatch, AhpIterate and AhpFinish moves pc or iter, and one of them is
\* enabled wherever the call is running
AhpAdvance ==
    /\ AhpRunning
    /\ pc' \in {"ahp_loop", "ahp_after", "ahp_done"}
    /\ iter' \in 0..MaxIterations
    /\ <<pc', iter'>> # <<pc, iter>>

SpecAHPFair == SpecAHP /\ WF_<<pc, iter>>(AhpAdvance)

(***************************************************************************)
(* Specification SpecAnalytics: one call of any of the functions          *)
(* calculatePortfolioMetrics, runMonteCarloSimulation (with               *)
(* calculateMultiPeriodProjections), calculateRiskMetrics,                 *)
(* calculateTOPSISRanking and calculateAHPWeights                          *)
(***************************************************************************)
InitAnalytics ==
    \/ /\ pc = "pm_call"
       /\ assets \in McPortfolios
       /\ PmIdle /\ McIdle /\ RmIdle /\ TopsisIdle /\ AhpIdle /\ AppIdle
    \/ /\ pc = "mc_call"
       /\ assets \in McPortfolios
       /\ initialValue \in McInitialValues
       /\ timeHorizon \in 1..MaxHorizon
       /\ simulations \in 1..MaxSimulations
       /\ includeMultiPeriod \in BOOLEAN
       /\ tape \in [1..1 -> Draws]
       /\ calls = None /\ i = None /\ day = None /\ portfolioValue = None
       /\ finalValues = None /\ returns = None /\ mcResult = None
       /\ PmIdle /\ RmIdle /\ TopsisIdle /\ AhpIdle /\ AppIdle
    \/ /\ pc = "rm_call"
       /\ assets \in RmPortfolios
       /\ rmReturns \in SeqsUpTo(RmValues, MaxPrefix)
       /\ marketReturns \in RmMarkets(rmReturns)
       /\ riskMetrics = None
       /\ PmIdle /\ McIdle /\ TopsisIdle /\ AhpIdle /\ AppIdle
    \/ /\ pc = "topsis_call"
       /\ assets \in SeqsUpTo(TopsisAssets, MaxRanked)
       /\ criteria \in SeqsUpTo(TopsisCriteria, 1)
       /\ topsisResults = None
       /\ PmIdle /\ McIdle /\ RmIdle /\ AhpIdle /\ AppIdle
    \/ InitAHP

NextAnalytics == NextPM \/ NextMC \/ NextRM \/ NextTOPSIS \/ NextAHP

SpecAnalytics == InitAnalytics /\ [][NextAnalytics]_vars

(***************************************************************************)
(* Specification SpecDashboard: the PortfolioAnalyzer component, its       *)
(* runAnalysis handler, the progress timer and the rendering of            *)
(* AssetAllocation                                                         *)
(***************************************************************************)
\* defaultAssets
DefaultAssets ==
    << Asset("MSFT", Num(20), Rat(13, 100), Rat(24, 100), Num(29050)),
       Asset("TSLA", Num(25), Rat(18, 100), Rat(45, 100), Num(20750)),
       Asset("NVDA", Num(20), Rat(20, 100), Rat(35, 100), Num(74700)),
       Asset("AAPL", Num(20), Rat(12, 100), Rat(25, 100), Num(12450)),
       Asset("GOOGL", Num(15), Rat(15, 100), Rat(28, 100), Num(232400)) >>

\* the lists the state `assets` holds: the default one, and what is left of
\* it after the user removed rows or set every weight to 0
DashboardPortfolios ==
    { DefaultAssets,
      Slice(DefaultAssets, 0, 3),
      Slice(DefaultAssets, 3, 4),
      <<Asset("MSFT", Zero, Rat(13, 100), Rat(24, 100), Num(29050))>>,
      <<>> }

\* Math.random() * 15, to the whole numbers below it
ProgressSteps == {0, 7, 14}

\* Math.min(prev + step, 90)
ProgressCap == 90

TickedProgress(prev, step) ==
    IF prev + step < ProgressCap THEN prev + step ELSE ProgressCap

\* assets.sort((a, b) => b.expectedReturn - a.expectedReturn): in place,
\* stable, the higher return first
SortByReturnDescending(as) ==
    LET n == Len(as)
        Position(j) == 1 + Cardinality({k \in 1..n :
                               LET c == Cmp(as[k].expectedReturn, as[j].expectedReturn)
                               IN  c > 0 \/ (c = 0 /\ k < j)})
        placed == {<<Position(j), as[j]>> : j \in 1..n}
    IN  Array([p \in 1..n |-> (CHOOSE e \in placed : e[1] = p)[2]])

\* assets.sort((a, b) => a.volatility - b.volatility): in place, stable,
\* the lower volatility first
SortByVolatilityAscending(as) ==
    LET n == Len(as)
        Position(j) == 1 + Cardinality({k \in 1..n :
                               LET c == Cmp(as[k].volatility, as[j].volatility)
                               IN  c < 0 \/ (c = 0 /\ k < j)})
        placed == {<<Position(j), as[j]>> : j \in 1..n}
    IN  Array([p \in 1..n |-> (CHOOSE e \in placed : e[1] = p)[2]])

\* the prop array after AssetAllocation has rendered: both sorts are made on
\* the array itself, and only when it has more than one element
AssetsAfterRender(as) ==
    IF Len(as) > 1
    THEN SortByVolatilityAscending(SortByReturnDescending(as))
    ELSE as

\* how many runs of the analysis a behaviour holds
MaxRuns == 2

InitDashboard ==
    /\ pc = "ra_idle"
    /\ assets \in DashboardPortfolios
    /\ isRunning = FALSE /\ resultsState = None /\ progress = 0
    /\ progressInterval = None /\ timers = {} /\ timerIds = 0
    /\ toast = None
    /\ PmIdle /\ McIdle /\ RmIdle /\ TopsisIdle /\ AhpIdle /\ ExcelIdle

\* runAnalysis with totalWeight === 0: the toast and the return
RunAnalysisNoAssets ==
    /\ pc = "ra_idle"
    /\ ~isRunning
    /\ Eq(TotalWeight(assets, Len(assets)), Zero)
    /\ toast' = "Please add some assets to your portfolio"
    /\ UNCHANGED <<pc, assets, pmVars, mcVars, rmVars, topsisVars, ahpVars,
                   isRunning, resultsState, progress, progressInterval,
                   timers, timerIds, excelVars>>

\* runAnalysis up to its await: the state is set, the timer is started
RunAnalysisStart ==
    /\ pc = "ra_idle"
    /\ ~isRunning
    /\ ~Eq(TotalWeight(assets, Len(assets)), Zero)
    /\ timerIds < MaxRuns
    /\ isRunning' = TRUE
    /\ progress' = 0
    /\ timerIds' = timerIds + 1
    /\ progressInterval' = timerIds + 1
    /\ timers' = timers \cup {timerIds + 1}
    /\ pc' = "ra_await"
    /\ UNCHANGED <<assets, pmVars, mcVars, rmVars, topsisVars, ahpVars,
                   resultsState, toast, excelVars>>

\* the callback of a timer that is set: it runs whenever no handler does
ProgressTick ==
    /\ pc \in {"ra_idle", "ra_await"}
    /\ \E id \in timers, step \in ProgressSteps :
          progress' = TickedProgress(progress, step)
    /\ UNCHANGED <<pc, assets, pmVars, mcVars, rmVars, topsisVars, ahpVars,
                   isRunning, resultsState, progressInterval, timers,
                   timerIds, toast, excelVars>>

\* runAnalysis from its await to its end when nothing throws: the timer is
\* cleared, the results are set, and the finally block resets the state
\* (setProgress(100) is followed by setProgress(0) in the same task)
RunAnalysisComplete ==
    /\ pc = "ra_await"
    /\ timers' = timers \ {progressInterval}
    /\ resultsState' = "mcResults"
    /\ riskMetrics' = "risk"
    /\ toast' = "Analysis complete!"
    /\ isRunning' = FALSE
    /\ progress' = 0
    /\ progressInterval' = None
    /\ pc' = "ra_idle"
    /\ UNCHANGED <<assets, pmVars, mcVars, rmReturns, marketReturns,
                   topsisVars, ahpVars, timerIds, excelVars>>

\* runAnalysis from its await to its end when a statement of the try block
\* throws: the catch block shows the toast, the finally block resets the
\* state; progressInterval is a const of the try block and out of scope in
\* both, and neither clears the timer
RunAnalysisThrow ==
    /\ pc = "ra_await"
    /\ toast' = "Analysis failed. Please check your inputs and try again."
    /\ isRunning' = FALSE
    /\ progress' = 0
    /\ progressInterval' = None
    /\ pc' = "ra_idle"
    /\ UNCHANGED <<assets, pmVars, mcVars, rmVars, topsisVars, ahpVars,
                   resultsState, timers, timerIds, excelVars>>

\* a render of PortfolioAnalyzer: AssetAllocation is rendered with the
\* state array itself when it is not empty
RenderAssetAllocation ==
    /\ pc \in {"ra_idle", "ra_await"}
    /\ Len(assets) > 0
    /\ assets' = AssetsAfterRender(assets)
    /\ UNCHANGED <<pc, pmVars, mcVars, rmVars, topsisVars, ahpVars, appVars>>

NextDashboard ==
    \/ RunAnalysisNoAssets
    \/ RunAnalysisStart
    \/ ProgressTick
    \/ RunAnalysisComplete
    \/ RunAnalysisThrow
    \/ RenderAssetAllocation

SpecDashboard == InitDashboard /\ [][NextDashboard]_vars

(***************************************************************************)
(* Specification SpecExcel: one call of parseExcelFile                     *)
(***************************************************************************)
\* the value of a cell of a row object: a number, a string, or undefined
\* for a column the row does not have
Undefined == <<"undefined">>

NumberCell(q) == <<"number", q>>

StringCell(str) == <<"string", str>>

\* row[header]
Lookup(row, header) ==
    IF header \in DOMAIN row THEN row[header] ELSE Undefined

\* the truthiness of a cell
Truthy(cell) ==
    CASE cell[1] = "number" -> ~isNaN(cell[2]) /\ ~Eq(cell[2], Zero)
      [] cell[1] = "string" -> cell[2] # ""
      [] OTHER -> FALSE

\* a || b
OrElse(a, b) == IF Truthy(a) THEN a ELSE b

\* parseFloat of the strings the rows hold
ParseFloatString(str) ==
    CASE str = "0.3" -> Rat(3, 10)
      [] str = "0" -> Zero
      [] OTHER -> NaN

\* parseFloat(cell): a number is parsed from its own decimal writing
parseFloat(cell) ==
    CASE cell[1] = "number" -> cell[2]
      [] cell[1] = "string" -> ParseFloatString(cell[2])
      [] OTHER -> NaN

\* `STOCK${index + 1}` for the 0-based index
StockNames == <<"STOCK1", "STOCK2", "STOCK3", "STOCK4">>

\* row.Symbol || row.symbol || row.SYMBOL || `STOCK${index + 1}`
SymbolOf(row, index) ==
    OrElse(Lookup(row, "Symbol"),
      OrElse(Lookup(row, "symbol"),
        OrElse(Lookup(row, "SYMBOL"), StringCell(StockNames[index + 1]))))

\* the argument of parseFloat for the weight
WeightCell(row) ==
    OrElse(Lookup(row, "Weight"),
      OrElse(Lookup(row, "weight"),
        OrElse(Lookup(row, "WEIGHT"), NumberCell(Zero))))

ExpectedReturnCell(row) ==
    OrElse(Lookup(row, "Expected Return"),
      OrElse(Lookup(row, "expectedReturn"),
        OrElse(Lookup(row, "EXPECTED_RETURN"),
          OrElse(Lookup(row, "Expected_Return"), NumberCell(Rat(1, 10))))))

VolatilityCell(row) ==
    OrElse(Lookup(row, "Volatility"),
      OrElse(Lookup(row, "volatility"),
        OrElse(Lookup(row, "VOLATILITY"), NumberCell(Rat(2, 10)))))

PriceCell(row) ==
    OrElse(Lookup(row, "Price"),
      OrElse(Lookup(row, "price"),
        OrElse(Lookup(row, "PRICE"), NumberCell(Num(100)))))

\* the object the map callback returns; the symbols of the rows are strings,
\* which String(symbol) returns as they are
RowToAsset(row, index) ==
    [symbol |-> SymbolOf(row, index)[2],
     name |-> <<SymbolOf(row, index)[2], " Corp.">>,
     weight |-> parseFloat(WeightCell(row)),
     expectedReturn |-> parseFloat(ExpectedReturnCell(row)),
     volatility |-> parseFloat(VolatilityCell(row)),
     price |-> parseFloat(PriceCell(row))]

\* asset.symbol && asset.weight > 0
KeptByFilter(asset) == asset.symbol # "" /\ Lt(Zero, asset.weight)

RECURSIVE FilterAssets(_, _)
\* .filter(...) over the first k elements
FilterAssets(mapped, k) ==
    IF k = 0 THEN <<>>
    ELSE IF KeptByFilter(mapped[k])
         THEN Append(FilterAssets(mapped, k - 1), mapped[k])
         ELSE FilterAssets(mapped, k - 1)

\* jsonData.map(...).filter(...)
ImportedAssets(jsonData) ==
    LET mapped == Array([k \in 1..Len(jsonData) |-> RowToAsset(jsonData[k], k - 1)])
    IN  FilterAssets(mapped, Len(mapped))

\* a promise, and what resolve and reject do to it: only the first call
\* settles it
Pending == [state |-> "pending", value |-> <<>>]

Resolve(p, value) ==
    IF p.state = "pending" THEN [state |-> "fulfilled", value |-> value] ELSE p

Reject(p, message) ==
    IF p.state = "pending" THEN [state |-> "rejected", value |-> <<message>>] ELSE p

\* the rows sheet_to_json yields: every column present, columns missing,
\* cells holding 0, a text cell in a number column, other header spellings
ExcelRows ==
    { ("Symbol" :> StringCell("A")) @@ ("Weight" :> NumberCell(Num(10)))
        @@ ("Expected Return" :> NumberCell(Rat(3, 10)))
        @@ ("Volatility" :> NumberCell(Rat(1, 2)))
        @@ ("Price" :> NumberCell(Num(50))),
      ("Symbol" :> StringCell("B")) @@ ("Weight" :> NumberCell(Num(10))),
      ("Symbol" :> StringCell("C")) @@ ("Weight" :> NumberCell(Num(10)))
        @@ ("Expected Return" :> NumberCell(Zero))
        @@ ("Volatility" :> NumberCell(Zero))
        @@ ("Price" :> NumberCell(Zero)),
      ("Symbol" :> StringCell("D")) @@ ("Weight" :> NumberCell(Zero)),
      ("Symbol" :> StringCell("E")),
      ("Weight" :> NumberCell(Num(5))),
      ("symbol" :> StringCell("F")) @@ ("WEIGHT" :> NumberCell(Num(5)))
        @@ ("expectedReturn" :> StringCell("0.3")),
      ("Symbol" :> StringCell("G")) @@ ("Weight" :> StringCell("n/a")),
      ("Symbol" :> StringCell("H")) @@ ("Weight" :> NumberCell(Num(-5))) }

\* how many rows a sheet holds
MaxRows == 2

\* the files: a workbook with its rows, bytes XLSX.read cannot parse, and a
\* file the reader cannot read
ExcelFiles ==
    {[kind |-> "workbook", rows |-> rows] : rows \in SeqsUpTo(ExcelRows, MaxRows)}
    \cup {[kind |-> "corrupt", rows |-> <<>>], [kind |-> "unreadable", rows |-> <<>>]}

InitExcel ==
    /\ pc = "xl_call"
    /\ assets = None
    /\ file \in ExcelFiles
    /\ promise = None /\ settleCalls = None
    /\ PmIdle /\ McIdle /\ RmIdle /\ TopsisIdle /\ AhpIdle /\ UiIdle

\* parseExcelFile(file): the promise is made, the handlers are set and the
\* read is started
ParseExcelFileCall ==
    /\ pc = "xl_call"
    /\ promise' = Pending
    /\ settleCalls' = 0
    /\ pc' = "xl_reading"
    /\ UNCHANGED <<assets, pmVars, mcVars, rmVars, topsisVars, ahpVars, uiVars, file>>

\* reader.onload: the rows are mapped and filtered and the promise is
\* resolved; bytes that are no workbook make XLSX.read throw, and the catch
\* block rejects
ReaderOnLoad ==
    /\ pc = "xl_reading"
    /\ file.kind \in {"workbook", "corrupt"}
    /\ promise' = IF file.kind = "workbook"
                  THEN Resolve(promise, ImportedAssets(file.rows))
                  ELSE Reject(promise, "Failed to parse Excel file. Please check the format.")
    /\ settleCalls' = settleCalls + 1
    /\ pc' = "xl_done"
    /\ UNCHANGED <<assets, pmVars, mcVars, rmVars, topsisVars, ahpVars, uiVars, file>>

\* reader.onerror
ReaderOnError ==
    /\ pc = "xl_reading"
    /\ file.kind = "unreadable"
    /\ promise' = Reject(promise, "Failed to read the Excel file.")
    /\ settleCalls' = settleCalls + 1
    /\ pc' = "xl_done"
    /\ UNCHANGED <<assets, pmVars, mcVars, rmVars, topsisVars, ahpVars, uiVars, file>>

NextExcel == ParseExcelFileCall \/ ReaderOnLoad \/ ReaderOnError

SpecExcel == InitExcel /\ [][NextExcel]_vars

(***************************************************************************)
(* Properties of calculatePortfolioMetrics (under SpecPM)                  *)
(***************************************************************************)
PmDone == pc = "pm_done"

RECURSIVE SumWeightedReturns(_, _)
\* sum of w_i * r_i over the first k assets
SumWeightedReturns(as, k) ==
    IF k = 0 THEN Zero
    ELSE Add(SumWeightedReturns(as, k - 1),
             Mul(as[k].weight, as[k].expectedReturn))

RECURSIVE SumWeightedSquares(_, _)
\* sum of w_i^2 * vol_i^2 over the first k assets
SumWeightedSquares(as, k) ==
    IF k = 0 THEN Zero
    ELSE Add(SumWeightedSquares(as, k - 1),
             Mul(Mul(as[k].weight, as[k].weight),
                 Mul(as[k].volatility, as[k].volatility)))

ScaleWeights(as, c) ==
    [k \in 1..Len(as) |-> [as[k] EXCEPT !.weight = Mul(c, as[k].weight)]]

ScaleFactors == {Num(2), Num(3), Rat(1, 2)}

ScenarioAssets ==
    <<Asset("A", Num(50), Rat(1, 10), Rat(1, 5), Num(100)),
      Asset("A", Num(50), Rat(1, 5), Rat(2, 5), Num(100))>>

\* C6: expectedReturn is (sum of w_i r_i) / W and volatility is the root of
\* (sum of w_i^2 vol_i^2) / W^2, with W the sum of the weights and no
\* covariance term (an undefined result, NaN, counting as one value); hence
\* scaling every weight by one positive constant changes neither output; and
\* the two equally weighted assets (0.10, 0.20) and (0.20, 0.40) give
\* expectedReturn 0.15 and the root of 0.05 (to the three digits of the
\* model's square root).
C6_WeightNormalizedAggregate ==
    PmDone =>
        LET n == Len(assets)
            W == TotalWeight(assets, n)
        IN  /\ portfolioMetrics.expectedReturn
                 = (IF n = 0 THEN Zero ELSE Div(SumWeightedReturns(assets, n), W))
            /\ portfolioMetrics.volatility
                 = (IF n = 0 THEN Zero
                    ELSE MathSqrt(Div(SumWeightedSquares(assets, n), Mul(W, W))))
            /\ \A c \in ScaleFactors :
                 calculatePortfolioMetrics(ScaleWeights(assets, c)) = portfolioMetrics
            /\ assets = ScenarioAssets =>
                 /\ portfolioMetrics.expectedReturn = Rat(3, 20)
                 /\ portfolioMetrics.volatility = MathSqrt(Rat(1, 20))
                 /\ Le(MathPow(portfolioMetrics.volatility, 2), Rat(1, 20))
                 /\ Lt(Rat(1, 20),
                       MathPow(Add(portfolioMetrics.volatility, Rat(1, 1000)), 2))

C6_Witness ==
    /\ PmDone
    /\ assets = ScenarioAssets
    /\ portfolioMetrics.expectedReturn = Rat(3, 20)

C8_ZeroTotalWeightGuarded ==
    (PmDone /\ Len(assets) >= 1 /\ TotalWeight(assets, Len(assets)) = Zero) =>
        /\ portfolioMetrics.expectedReturn = Zero
        /\ portfolioMetrics.volatility = Zero

(***************************************************************************)
(* Properties of runMonteCarloSimulation (under SpecMC)                    *)
(***************************************************************************)
McDone == pc = "mc_done"

PercentilesOrdered(p) ==
    /\ Le(p.p5, p.p25)
    /\ Le(p.p25, p.p50)
    /\ Le(p.p50, p.p75)
    /\ Le(p.p75, p.p95)

NoNaNIn(arr) == \A k \in 1..Len(arr) : ~isNaN(arr[k])

\* C1: the percentiles of every result, and of every multi-period
\* projection, satisfy p5 <= p25 <= p50 <= p75 <= p95.
C1_PercentilesMonotone ==
    McDone =>
        /\ PercentilesOrdered(mcResult.percentiles)
        /\ mcResult.multiPeriodProjections # None =>
             \A k \in 1..Len(mcResult.multiPeriodProjections) :
                 PercentilesOrdered(mcResult.multiPeriodProjections[k].percentiles)

\* the ordering does hold of every result whose values are all numbers
PercentilesMonotoneWithoutNaN ==
    McDone =>
        /\ NoNaNIn(mcResult.finalValues) => PercentilesOrdered(mcResult.percentiles)
        /\ mcResult.multiPeriodProjections # None =>
             \A k \in 1..Len(mcResult.multiPeriodProjections) :
                 LET p == mcResult.multiPeriodProjections[k].percentiles
                 IN  NoNaNIn(<<p.p5, p.p25, p.p50, p.p75, p.p95>>)
                         => PercentilesOrdered(p)

RECURSIVE PathAfter(_, _)
\* the value of the path whose first normalRandom call is call `from`, after
\* d daily steps, recomputed from the arguments and the tape
PathAfter(from, d) ==
    IF d = 0 THEN initialValue
    ELSE GrowValue(PathAfter(from, d - 1), DailyReturn(assets),
                   DailyVolatility(assets), DrawAt(tape, from + d - 1))

\* C9: finalValues and returns hold exactly `simulations` entries, entry j
\* being the j-th simulated path's value (path order, not sorted order) and
\* its realized return (finalValues[j] - initialValue) / initialValue, and
\* timeHorizonDays is the timeHorizon argument.
C9_ResultArraysInPathOrder ==
    McDone =>
        /\ Len(mcResult.finalValues) = simulations
        /\ Len(mcResult.returns) = simulations
        /\ \A j \in 1..simulations :
              /\ mcResult.finalValues[j] = PathAfter((j - 1) * timeHorizon, timeHorizon)
              /\ mcResult.returns[j]
                   = Div(Sub(mcResult.finalValues[j], initialValue), initialValue)
        /\ mcResult.timeHorizonDays = timeHorizon

\* a result of three paths whose path order is not the sorted order
C9_Witness ==
    /\ McDone
    /\ simulations = 3
    /\ Lt(mcResult.finalValues[2], mcResult.finalValues[1])
    /\ Lt(mcResult.finalValues[2], mcResult.finalValues[3])

AllVolatilityZero(as) == \A k \in 1..Len(as) : as[k].volatility = Zero

\* C10: when every asset has volatility 0 (stated here for portfolios whose
\* total weight is not 0, so that dailyReturn is a number), every final
\* value equals initialValue * (1 + dailyReturn)^timeHorizon whatever the
\* draws are, and the five percentiles are equal.
C10_ZeroVolatilityDeterministic ==
    (McDone /\ AllVolatilityZero(assets)
            /\ TotalWeight(assets, Len(assets)) # Zero) =>
        LET expected == Mul(initialValue,
                            MathPow(Add(One, DailyReturn(assets)), timeHorizon))
            p == mcResult.percentiles
        IN  /\ \A j \in 1..simulations : Eq(mcResult.finalValues[j], expected)
            /\ Eq(p.p5, p.p25) /\ Eq(p.p25, p.p50)
            /\ Eq(p.p50, p.p75) /\ Eq(p.p75, p.p95)

\* with draws whose u1 is never 0 the zero-volatility result is the
\* deterministic one
ZeroVolatilityDeterministicWithoutZeroDraw ==
    (McDone /\ AllVolatilityZero(assets)
            /\ TotalWeight(assets, Len(assets)) # Zero
            /\ \A k \in 1..Len(tape) : tape[k][1] # "0") =>
        LET expected == Mul(initialValue,
                            MathPow(Add(One, DailyReturn(assets)), timeHorizon))
        IN  \A j \in 1..simulations : Eq(mcResult.finalValues[j], expected)

\* C19: in normalRandom the draw u1 whose logarithm is taken is never
\* exactly 0, and every variate generated is finite; stated of the
\* normalRandom calls the simulation loop has made so far.
C19_LogArgumentNeverZero ==
    (pc \in {"mc_loop", "mc_done"}) =>
        \A k \in 0..(calls - 1) :
            /\ DrawAt(tape, k)[1] # "0"
            /\ IsFinite(normalRandom(DailyReturn(assets), DailyVolatility(assets),
                                     DrawAt(tape, k)))

(***************************************************************************)
(* Properties of calculateRiskMetrics (under SpecRM)                       *)
(***************************************************************************)
RmDone == pc = "rm_done"

\* C2: for every return series, of any length and any signs, var95 and
\* cvar95 are both numbers >= 0 (stated here for the series that have at
\* least one entry).
C2_TailLossesNonNegative ==
    (RmDone /\ Len(rmReturns) >= 1) =>
        /\ Le(Zero, riskMetrics.var95)
        /\ Le(Zero, riskMetrics.cvar95)

\* both are numbers >= 0 once the series has the 20 entries that make the
\* tail index positive
TailLossesNonNegativeFrom20 ==
    (RmDone /\ Len(rmReturns) >= 20) =>
        /\ Le(Zero, riskMetrics.var95)
        /\ Le(Zero, riskMetrics.cvar95)

(***************************************************************************)
(* Properties of calculateTOPSISRanking (under SpecTOPSIS)                 *)
(***************************************************************************)
TopsisDone == pc = "topsis_done"

\* C3: every returned result has a score in [0,1]; when both distances are
\* 0 the score is 0 rather than NaN.
C3_ScoreInUnitInterval ==
    TopsisDone =>
        \A k \in 1..Len(topsisResults) :
            LET result == topsisResults[k]
            IN  /\ Le(Zero, result.score)
                /\ Le(result.score, One)
                /\ (result.distanceToIdeal = Zero
                        /\ result.distanceToNegative = Zero)
                     => result.score = Zero

\* the ranking ran to its end on two or more assets and one of them is at
\* distance 0 from both solutions, so that the quotient is 0/0
C3_Witness ==
    /\ TopsisDone
    /\ ~Throws(assets, criteria)
    /\ Len(assets) >= 2
    /\ \E k \in 1..Len(topsisResults) :
          /\ topsisResults[k].distanceToIdeal = Zero
          /\ topsisResults[k].distanceToNegative = Zero
          /\ topsisResults[k].score = Zero

\* C4: one result per input asset, each assetIndex 0..n-1 exactly once with
\* the symbol of that asset; the list is ordered by non-increasing score,
\* the k-th element has rank k, and assets with equal scores appear in
\* their input order.
C4_RankedPermutation ==
    TopsisDone =>
        LET n == Len(assets)
            r == topsisResults
        IN  /\ Len(r) = n
            /\ \A a \in 0..(n - 1) :
                  Cardinality({k \in 1..n : r[k].assetIndex = a}) = 1
            /\ \A k \in 1..n :
                  /\ r[k].assetIndex \in 0..(n - 1)
                  /\ r[k].symbol = assets[r[k].assetIndex + 1].symbol
                  /\ r[k].rank = k
            /\ \A k \in 1..n : \A l \in 1..n :
                  k < l =>
                     /\ Cmp(r[k].score, r[l].score) >= 0
                     /\ r[k].score = r[l].score
                          => r[k].assetIndex < r[l].assetIndex

\* three assets ranked, the first input asset not first in the ranking,
\* and two assets with the same score
C4_Witness ==
    /\ TopsisDone
    /\ ~Throws(assets, criteria)
    /\ Len(assets) = 3
    /\ topsisResults[1].assetIndex # 0
    /\ Lt(topsisResults[3].score, topsisResults[1].score)
    /\ \E k \in 1..2 : topsisResults[k].score = topsisResults[k + 1].score

\* the labels of the switch that are not the default
CaseLabels ==
    {"return", "expectedReturn", "volatility", "risk", "sharpe", "sharperatio",
     "price"}

CriterionNames == {c.name : c \in TopsisCriteria}

\* the attribute of the asset that a criterion of this name is about
CriterionAttribute(asset, criterion) ==
    LET label == ToLowerCase(criterion.name)
    IN  CASE label \in {"return", "expectedreturn"} -> asset.expectedReturn
          [] label \in {"volatility", "risk"} -> asset.volatility
          [] label \in {"sharpe", "sharperatio"} ->
                Div(Sub(asset.expectedReturn, RiskFreeRate), asset.volatility)
          [] label = "price" -> asset.price
          [] OTHER -> Zero

\* asset a has the best value on every criterion
BestOnEvery(a) ==
    \A j \in 1..Len(criteria) : \A b \in 1..Len(assets) :
        LET mine == CriterionAttribute(assets[a], criteria[j])
            other == CriterionAttribute(assets[b], criteria[j])
        IN  IF criteria[j].beneficial THEN Le(other, mine) ELSE Le(mine, other)

\* the result of the asset at input position a
ResultOf(a) ==
    topsisResults[CHOOSE k \in 1..Len(topsisResults) :
                     topsisResults[k].assetIndex = a - 1]

RanksFirstAlone(a) ==
    /\ ResultOf(a).rank = 1
    /\ \A b \in 1..Len(assets) :
          b # a => Lt(ResultOf(b).score, ResultOf(a).score)

\* the case of the claim: all criteria known, with positive weight and
\* finite values, and a is the one asset that is best on every criterion
DominatesAlone(a, knownNames) ==
    /\ Len(criteria) >= 1
    /\ \A j \in 1..Len(criteria) :
          /\ criteria[j].name \in knownNames
          /\ Lt(Zero, criteria[j].weight)
          /\ \A b \in 1..Len(assets) :
                IsFinite(CriterionAttribute(assets[b], criteria[j]))
    /\ BestOnEvery(a)
    /\ \A b \in 1..Len(assets) : b # a => ~BestOnEvery(b)

\* C5: with known criteria of positive weight and finite values, the one
\* asset that attains the best value on every criterion gets rank 1 and a
\* score strictly greater than every other asset's, wherever it sits in the
\* input list.
C5_DominatingAssetRanksFirst ==
    TopsisDone =>
        \A a \in 1..Len(assets) :
            DominatesAlone(a, {name \in CriterionNames :
                                   \/ name \in CaseLabels
                                   \/ ToLowerCase(name) \in CaseLabels})
                => RanksFirstAlone(a)

\* the same with the criteria whose lower-cased name the switch matches
DominatingAssetRanksFirstWhenMatched ==
    TopsisDone =>
        \A a \in 1..Len(assets) :
            DominatesAlone(a, {name \in CriterionNames :
                                   ToLowerCase(name) \in CaseLabels})
                => RanksFirstAlone(a)

(***************************************************************************)
(* Properties of the multi-period projections (under SpecMC)               *)
(***************************************************************************)
\* the years of the six fixed horizons
HorizonYears == <<1, 3, 5, 10, 15, 20>>

\* C11: with includeMultiPeriod true the result has exactly six
\* projections, in order, with timeHorizonDays 252 times 1, 3, 5, 10, 15
\* and 20, whatever the base timeHorizon is; with includeMultiPeriod false
\* the multiPeriodProjections field is undefined.
C11_SixFixedHorizons ==
    McDone =>
        IF includeMultiPeriod
        THEN /\ Len(mcResult.multiPeriodProjections) = 6
             /\ \A k \in 1..6 :
                   mcResult.multiPeriodProjections[k].timeHorizonDays
                       = 252 * HorizonYears[k]
        ELSE mcResult.multiPeriodProjections = None

\* projections were asked for with a base horizon of 2 days
C11_Witness ==
    /\ McDone
    /\ includeMultiPeriod
    /\ timeHorizon = 2
    /\ Len(mcResult.multiPeriodProjections) = 6
    /\ mcResult.multiPeriodProjections[6].timeHorizonDays = 5040

\* the final values of the k-th horizon, in path order: its paths read the
\* draws that follow those of the base simulation and of the horizons
\* before it
HorizonFinalValues(k) ==
    PeriodFinalValues(initialValue, DailyReturn(assets), DailyVolatility(assets),
                      simulations, tape, calls + CallsBefore(k, simulations),
                      periods[k].days)

\* the number of entries of values strictly below initial
StrictlyBelow(values, initial) ==
    Cardinality({j \in 1..Len(values) : Cmp(values[j], initial) < 0})

\* C12: for every projection, probabilityOfLoss is 100 times the number of
\* that horizon's final values strictly below initialValue, divided by
\* simulations; it is between 0 and 100, and a final value equal to
\* initialValue is not counted.
C12_ProbabilityOfLoss ==
    (McDone /\ includeMultiPeriod) =>
        \A k \in 1..Len(mcResult.multiPeriodProjections) :
        \A values \in {HorizonFinalValues(k)} :
            LET p == mcResult.multiPeriodProjections[k].probabilityOfLoss
            IN  /\ p = Rat(100 * StrictlyBelow(values, initialValue), simulations)
                /\ Le(Zero, p) /\ Le(p, Num(100))
                /\ (\A j \in 1..simulations : values[j] = initialValue)
                      => p = Zero

\* some paths of the one-year horizon end below initialValue and some do
\* not, and the probability is strictly between 0 and 100
C12_Witness ==
    /\ McDone
    /\ includeMultiPeriod
    /\ simulations >= 2
    /\ Lt(Zero, mcResult.multiPeriodProjections[1].probabilityOfLoss)
    /\ Lt(mcResult.multiPeriodProjections[1].probabilityOfLoss, Num(100))

\* every path of every horizon ends on initialValue exactly
AllEndOnInitialValue ==
    /\ McDone
    /\ includeMultiPeriod
    /\ \A k \in 1..6 : \A j \in 1..simulations :
          HorizonFinalValues(k)[j] = initialValue

(***************************************************************************)
(* Properties of the degenerate portfolios (under SpecDegenerate)          *)
(***************************************************************************)
MonteCarloResultFields ==
    {"finalValues", "returns", "percentiles", "var95", "expectedReturn",
     "volatility", "sharpeRatio", "timeHorizonDays", "multiPeriodProjections"}

RiskMetricsFields ==
    {"portfolioReturn", "portfolioVolatility", "sharpeRatio", "var95", "cvar95",
     "maxDrawdown", "beta"}

\* C13: with portfolio volatility 0 or total weight 0 both functions reach
\* their return statement, and the record returned is complete, with a
\* sharpeRatio that is infinite or NaN.
C13_DegenerateSharpeReturned ==
    /\ pc \in {"mc_call", "mc_loop", "mc_done", "rm_call", "rm_done"}
    /\ McDone => /\ DOMAIN mcResult = MonteCarloResultFields
                 /\ ~IsFinite(mcResult.sharpeRatio)
                 /\ Len(mcResult.finalValues) = simulations
    /\ RmDone => /\ DOMAIN riskMetrics = RiskMetricsFields
                 /\ ~IsFinite(riskMetrics.sharpeRatio)

\* the simulation returned for a portfolio of total weight 0, its
\* sharpeRatio NaN
C13_Witness ==
    /\ McDone
    /\ TotalWeight(assets, Len(assets)) = Zero
    /\ isNaN(mcResult.sharpeRatio)

\* calculateRiskMetrics returned an infinite sharpeRatio
DegenerateSharpeInfinite == RmDone /\ IsInf(riskMetrics.sharpeRatio)

(***************************************************************************)
(* Further properties of calculateRiskMetrics (under SpecRM)               *)
(***************************************************************************)
\* C14: when the series has fewer than 20 entries, so that the tail index
\* is 0, the division by that index is guarded and cvar95 is a defined
\* number, not the result of 0/0 (stated here for the series that have at
\* least one entry).
C14_TailIndexZeroGuarded ==
    (RmDone /\ Len(rmReturns) >= 1 /\ Len(rmReturns) < 20) =>
        IsFinite(riskMetrics.cvar95)

\* the value v of the series with at most k entries below it and more than
\* k entries not above it: the entry at 0-based index k of the ascending
\* order
OrderStatistic(rets, k) ==
    LET values == {rets[j] : j \in 1..Len(rets)}
    IN  CHOOSE v \in values :
            /\ Cardinality({j \in 1..Len(rets) : Lt(rets[j], v)}) <= k
            /\ Cardinality({j \in 1..Len(rets) : Le(rets[j], v)}) > k

\* the mean of the k lowest entries of the series: those below the entry
\* at index k of the ascending order, and as many entries equal to it as it
\* takes to make k
MeanOfLowest(rets, k) ==
    LET v == OrderStatistic(rets, k)
        below == SelectSeq(rets, LAMBDA r : Lt(r, v))
        total == Add(Sum(below, Len(below)), Mul(Num(k - Len(below)), v))
    IN  Div(total, Num(k))

\* C20: with s the ascending sort of returns and k = floor(0.05 * length),
\* var95 is |s[k]| and cvar95 is the absolute value of the mean of the k
\* entries s[0..k-1], s[k] itself excluded (the mean is stated for k >= 1,
\* where there are entries to average).
C20_TailStatistics ==
    (RmDone /\ Len(rmReturns) >= 1) =>
        LET k == (5 * Len(rmReturns)) \div 100
        IN  /\ riskMetrics.var95 = MathAbs(OrderStatistic(rmReturns, k))
            /\ k >= 1 => riskMetrics.cvar95 = MathAbs(MeanOfLowest(rmReturns, k))

\* a series of 40 entries or more that is not in ascending order, whose two
\* lowest entries differ from the entry at the tail index
C20_Witness ==
    /\ RmDone
    /\ Len(rmReturns) >= 40
    /\ Lt(rmReturns[2], rmReturns[1])
    /\ riskMetrics.cvar95 # riskMetrics.var95
    /\ riskMetrics.cvar95 # Zero

\* the computation raises an exception: there are assets, and either no
\* criterion or a criterion without a name
RaisesException ==
    /\ Len(assets) >= 1
    /\ \/ criteria = <<>>
       \/ \E j \in 1..Len(criteria) : criteria[j].name = None

\* C17: when the computation raises an exception (an empty criteria list
\* with at least one asset, a criterion without a name), the call returns
\* one result per asset in input order, with score 0, rank index + 1 and
\* both distances 0.
C17_FallbackInInputOrder ==
    (TopsisDone /\ RaisesException) =>
        /\ Len(topsisResults) = Len(assets)
        /\ \A a \in 1..Len(assets) :
               /\ topsisResults[a].assetIndex = a - 1
               /\ topsisResults[a].symbol = assets[a].symbol
               /\ topsisResults[a].score = Zero
               /\ topsisResults[a].rank = a
               /\ topsisResults[a].distanceToIdeal = Zero
               /\ topsisResults[a].distanceToNegative = Zero

\* two assets or more, ranked on a named criterion and a nameless one
C17_Witness ==
    /\ TopsisDone
    /\ Len(assets) >= 2
    /\ \E j, k \in 1..Len(criteria) :
           criteria[j].name = None /\ criteria[k].name # None
    /\ \A a \in 1..Len(assets) :
           topsisResults[a].rank = a /\ topsisResults[a].score = Zero

(***************************************************************************)
(* Properties of calculateAHPWeights (under SpecAHP)                       *)
(***************************************************************************)
AhpDone == pc = "ahp_done"

\* the matrix has a row for every name and every row an entry for every name
ShapeMatches(names, matrix) ==
    /\ Len(matrix) >= Len(names)
    /\ \A row \in 1..Len(names) : Len(matrix[row]) >= Len(names)

\* a[i][j] > 0 and a[i][j] * a[j][k] = a[i][k] throughout: the matrix of the
\* ratios of some positive weights
PerfectlyConsistent(names, matrix) ==
    LET n == Len(names)
    IN  /\ n >= 1
        /\ Len(matrix) = n
        /\ \A row \in 1..n : Len(matrix[row]) = n
        /\ \A row, col \in 1..n :
               IsFinite(matrix[row][col]) /\ Lt(Zero, matrix[row][col])
        /\ \A row, mid, col \in 1..n :
               Mul(matrix[row][mid], matrix[mid][col]) = matrix[row][col]

\* the weights of sum 1 that a perfectly consistent matrix is made of: its
\* first column over the sum of that column
TrueWeights(matrix) ==
    LET column == [row \in 1..Len(matrix) |-> matrix[row][1]]
    IN  [row \in 1..Len(matrix) |-> Div(column[row], Sum(column, Len(column)))]

Tolerance == Rat(1, 10000)

Within(x, y, tolerance) == Le(MathAbs(Sub(x, y)), tolerance)

\* the returned weights are the true ones, within 1e-4
WeightsRecovered ==
    /\ Len(ahpResult.weights) = Len(ahpCriteria)
    /\ \A k \in 1..Len(ahpCriteria) :
           Within(ahpResult.weights[k], TrueWeights(pairwiseMatrix)[k], Tolerance)

\* C15: for a perfectly consistent matrix a[i][j] = w_i / w_j of any size
\* n >= 1, the returned weights equal w within 1e-4 and the returned
\* consistencyRatio is 0 within tolerance.
C15_ConsistentMatrixRecovered ==
    (AhpDone /\ PerfectlyConsistent(ahpCriteria, pairwiseMatrix)) =>
        /\ WeightsRecovered
        /\ Within(ahpResult.consistencyRatio, Zero, Tolerance)

\* the same from two criteria on
ConsistentMatrixRecoveredFromTwo ==
    (AhpDone /\ PerfectlyConsistent(ahpCriteria, pairwiseMatrix)
             /\ Len(ahpCriteria) >= 2) =>
        /\ WeightsRecovered
        /\ Within(ahpResult.consistencyRatio, Zero, Tolerance)

\* with a single criterion the weight is recovered and the ratio is not
SingleCriterionRatioDefined ==
    (AhpDone /\ PerfectlyConsistent(ahpCriteria, pairwiseMatrix)
             /\ Len(ahpCriteria) = 1) =>
        ~(WeightsRecovered /\ isNaN(ahpResult.consistencyRatio))

\* every weight 1/n and consistencyRatio 0
IsUniformFallback(result, n) ==
    /\ Len(result.weights) = n
    /\ \A k \in 1..n : result.weights[k] = Rat(1, n)
    /\ result.consistencyRatio = Zero

\* C16: whenever the shape of the matrix does not match the n names (fewer
\* than n rows, or a row with fewer than n entries), the call returns the
\* uniform fallback: every weight 1/n and consistencyRatio 0.
C16_ShapeMismatchFallsBack ==
    (AhpDone /\ ~ShapeMatches(ahpCriteria, pairwiseMatrix)) =>
        IsUniformFallback(ahpResult, Len(ahpCriteria))

\* the same for the matrices that lack a row
MissingRowFallsBack ==
    (AhpDone /\ Len(pairwiseMatrix) < Len(ahpCriteria)) =>
        IsUniformFallback(ahpResult, Len(ahpCriteria))

\* a call on a matrix with all its rows, one of them short, that returned
\* weights which are not numbers
ShortRowNeverReturnsNaN ==
    (AhpDone /\ Len(pairwiseMatrix) = Len(ahpCriteria)
             /\ ~ShapeMatches(ahpCriteria, pairwiseMatrix)) =>
        \E k \in 1..Len(ahpCriteria) : ~isNaN(ahpResult.weights[k])

(***************************************************************************)
(* The arguments of the calls (under SpecAnalytics)                        *)
(***************************************************************************)
\* C18: no step of calculatePortfolioMetrics, runMonteCarloSimulation,
\* calculateMultiPeriodProjections, calculateRiskMetrics,
\* calculateAHPWeights or calculateTOPSISRanking changes an input: the asset
\* list, the returns and marketReturns series, the pairwise matrix and the
\* two criteria lists are after every step what they were before it.
C18_InputsUnchanged ==
    [][/\ assets' = assets
       /\ rmReturns' = rmReturns
       /\ marketReturns' = marketReturns
       /\ pairwiseMatrix' = pairwiseMatrix
       /\ ahpCriteria' = ahpCriteria
       /\ criteria' = criteria]_vars

\* calculateRiskMetrics has returned on a series that was not in ascending
\* order, and the series is still in the order it was passed in
C18_Witness ==
    /\ RmDone
    /\ Len(rmReturns) >= 2
    /\ Lt(rmReturns[2], rmReturns[1])
    /\ riskMetrics.var95 = MathAbs(rmReturns[2])

(***************************************************************************)
(* Drawdown, beta and the order of the tail measures (under SpecRM)        *)
(***************************************************************************)
\* max(returns[0..i]) for the 1-based position p
RunningMaxAt(rets, p) ==
    CHOOSE v \in {rets[j] : j \in 1..p} : \A j \in 1..p : Le(rets[j], v)

\* (runningMax_i - returns[i]) / runningMax_i for the 1-based position p
DrawdownTerm(rets, p) ==
    Div(Sub(RunningMaxAt(rets, p), rets[p]), RunningMaxAt(rets, p))

\* the greatest of the terms from the second entry on, and 0 when none of
\* them is positive
GreatestDrawdownTerm(rets) ==
    LET terms == {DrawdownTerm(rets, p) : p \in 2..Len(rets)}
        positive == {t \in terms : Lt(Zero, t)}
    IN  IF positive = {} THEN Zero
        ELSE CHOOSE t \in positive : \A u \in positive : Le(u, t)

\* C21: maxDrawdown is computed over the return series itself: it is the
\* maximum over i >= 1 of (runningMax_i - returns[i]) / runningMax_i with
\* runningMax_i = max(returns[0..i]), and 0 when no such term is positive.
C21_DrawdownOverReturns ==
    RmDone => riskMetrics.maxDrawdown = GreatestDrawdownTerm(rmReturns)

\* the same for the series none of whose terms is 0/0
DrawdownOverReturnsWhenDefined ==
    (RmDone /\ \A p \in 2..Len(rmReturns) : ~isNaN(DrawdownTerm(rmReturns, p)))
        => riskMetrics.maxDrawdown = GreatestDrawdownTerm(rmReturns)

\* C27: for every non-empty series of finite returns maxDrawdown is a finite
\* number >= 0, whatever the sign of the running maximum.
C27_DrawdownFiniteNonNegative ==
    (RmDone /\ Len(rmReturns) >= 1
            /\ \A p \in 1..Len(rmReturns) : IsFinite(rmReturns[p])) =>
        /\ IsFinite(riskMetrics.maxDrawdown)
        /\ Le(Zero, riskMetrics.maxDrawdown)

\* the same for the series whose running maximum is positive throughout
DrawdownFiniteWithPositiveMax ==
    (RmDone /\ Len(rmReturns) >= 1 /\ Lt(Zero, rmReturns[1])) =>
        /\ IsFinite(riskMetrics.maxDrawdown)
        /\ Le(Zero, riskMetrics.maxDrawdown)

\* C25: for every series with at least 20 entries, cvar95 >= var95.
C25_TailMeanBeyondThreshold ==
    (RmDone /\ Len(rmReturns) >= 20) =>
        Le(riskMetrics.var95, riskMetrics.cvar95)

\* the same for the series whose entry at the tail index is a loss
TailMeanBeyondThresholdOnLosses ==
    (RmDone /\ Len(rmReturns) >= 20
            /\ Le(OrderStatistic(rmReturns, Len(rmReturns) \div 20), Zero)) =>
        Le(riskMetrics.var95, riskMetrics.cvar95)

\* the mean of a series
Mean(xs) == Div(Sum(xs, Len(xs)), Num(Len(xs)))

\* the sum of (x - mean x) * (y - mean y) over two series of one length
SumOfCoDeviations(xs, ys) ==
    CHOOSE total \in
        {Sum(Array([k \in 1..Len(xs) |->
                       Mul(Sub(xs[k], xMean), Sub(ys[k], yMean))]), Len(xs)) :
            xMean \in {Mean(xs)}, yMean \in {Mean(ys)}} : TRUE

\* C22: beta is exactly 1 when marketReturns is absent or of another length
\* than returns; otherwise it is covariance(returns, marketReturns) over
\* variance(marketReturns), which is 1 when marketReturns is the returns
\* series itself and that series is not constant.
C22_BetaAgainstMarket ==
    RmDone =>
        IF marketReturns = Omitted \/ Len(marketReturns[1]) # Len(rmReturns)
        THEN riskMetrics.beta = One
        ELSE /\ riskMetrics.beta
                  = Div(SumOfCoDeviations(rmReturns, marketReturns[1]),
                        SumOfCoDeviations(marketReturns[1], marketReturns[1]))
             /\ (/\ marketReturns[1] = rmReturns
                 /\ \E p \in 1..Len(rmReturns) : rmReturns[p] # rmReturns[1])
                    => riskMetrics.beta = One

\* a market series of the length of returns, other than returns, gave a
\* beta that is a number other than 1
C22_Witness ==
    /\ RmDone
    /\ marketReturns # Omitted
    /\ Len(marketReturns[1]) = Len(rmReturns)
    /\ marketReturns[1] # rmReturns
    /\ IsFinite(riskMetrics.beta)
    /\ riskMetrics.beta # One

(***************************************************************************)
(* The decision matrix of calculateTOPSISRanking (under SpecTOPSIS)        *)
(***************************************************************************)
\* C26: a criterion named 'expectedReturn' is recognized like 'return': its
\* column of the decision matrix holds each asset's expectedReturn, not the
\* 0 of the unknown names.
C26_ExpectedReturnRecognized ==
    (TopsisDone /\ ~RaisesException) =>
        \A j \in 1..Len(criteria) :
            criteria[j].name = "expectedReturn" =>
                \A a \in 1..Len(assets) :
                    DecisionMatrix(assets, criteria)[a][j]
                        = assets[a].expectedReturn

\* the same for the criteria named 'Return'
ReturnRecognized ==
    (TopsisDone /\ ~RaisesException) =>
        \A j \in 1..Len(criteria) :
            criteria[j].name = "Return" =>
                \A a \in 1..Len(assets) :
                    DecisionMatrix(assets, criteria)[a][j]
                        = assets[a].expectedReturn

(***************************************************************************)
(* The power iteration of calculateAHPWeights (under SpecAHPFair, SpecAHP) *)
(***************************************************************************)
\* the L1 difference of two iterates
L1Difference(ws, newWeights) ==
    Sum(Array([k \in 1..Len(ws) |-> MathAbs(Sub(ws[k], newWeights[k]))]), Len(ws))

\* a step that is one pass of the loop
IsPass ==
    /\ pc = "ahp_loop"
    /\ pc' \in {"ahp_loop", "ahp_after"}
    /\ (pc' # pc \/ iter' # iter)

\* C23: the power iteration always terminates: the call returns, whatever
\* the matrix (one that yields NaN included); a pass is made only while
\* fewer than 100 have been made; and the loop is left right after the first
\* pass whose L1 difference from the previous iterate is below 1e-6, and
\* goes on after any other.
C23_PowerIterationTerminates ==
    /\ <>(pc = "ahp_done")
    /\ [](pc \in {"ahp_loop", "ahp_after"} => iter \in 0..MaxIterations)
    /\ [][IsPass =>
            /\ iter < MaxIterations
            /\ IF Lt(L1Difference(weights, weights'), Rat(1, 1000000))
               THEN pc' = "ahp_after" /\ iter' = iter
               ELSE pc' = "ahp_loop" /\ iter' = iter + 1]_vars

\* a call that made all 100 passes, on a matrix that yields NaN
C23_Witness ==
    /\ pc = "ahp_done"
    /\ iter = MaxIterations
    /\ Len(ahpResult.weights) >= 2
    /\ isNaN(ahpResult.weights[1])

\* a call that left the loop after its seventh pass
BrokeAfterSevenPasses == pc = "ahp_after" /\ iter = 6

\* the matrix is n by n for the n names, n >= 1, and its entries are
\* strictly positive numbers
PositiveSquare(names, matrix) ==
    /\ Len(names) >= 1
    /\ Len(matrix) = Len(names)
    /\ \A row \in 1..Len(matrix) :
          /\ Len(matrix[row]) = Len(names)
          /\ \A col \in 1..Len(names) :
                IsFinite(matrix[row][col]) /\ Lt(Zero, matrix[row][col])

\* n weights, each strictly positive, of sum 1
Normalized(ws, n) ==
    /\ Len(ws) = n
    /\ \A k \in 1..n : IsFinite(ws[k]) /\ Lt(Zero, ws[k])
    /\ Within(Sum(ws, n), One, Rat(1, 1000000000))

\* C24: for every n-by-n matrix with strictly positive entries the weights
\* are normalized after every pass of the loop and in the result: exactly n
\* weights, each strictly positive, summing to 1.
C24_WeightsNormalized ==
    (pc \in {"ahp_loop", "ahp_after", "ahp_done"}
         /\ PositiveSquare(ahpCriteria, pairwiseMatrix)) =>
        /\ Normalized(weights, Len(ahpCriteria))
        /\ pc = "ahp_done" => Normalized(ahpResult.weights, Len(ahpCriteria))

\* a result after seven passes on a matrix that is not consistent, with
\* weights that are not uniform
C24_Witness ==
    /\ pc = "ahp_done"
    /\ PositiveSquare(ahpCriteria, pairwiseMatrix)
    /\ ~PerfectlyConsistent(ahpCriteria, pairwiseMatrix)
    /\ iter = 6
    /\ ahpResult.weights[1] # ahpResult.weights[2]

(***************************************************************************)
(* The progress timer of runAnalysis and the rendering of AssetAllocation  *)
(* (under SpecDashboard)                                                   *)
(***************************************************************************)
\* a run of the analysis has been started and has ended
AnalysisFinished == pc = "ra_idle" /\ timerIds > 0

\* C28: once runAnalysis has finished, whether it succeeded or threw, the
\* timer it started is stopped: isRunning is false, progress is 0 and no
\* timer is left to change it.  Violated: a run that throws leaves its timer
\* set, and the next tick raises progress.
C28_TimerStoppedWhenFinished ==
    AnalysisFinished => ~isRunning /\ progress = 0 /\ timers = {}

\* what holds: a run that does not throw clears its timer, and every run
\* ends with isRunning false and progress 0
TimerStoppedAfterSuccess ==
    [][pc = "ra_await" /\ pc' = "ra_idle" =>
          /\ ~isRunning' /\ progress' = 0
          /\ toast' = "Analysis complete!" =>
                progressInterval \notin timers']_vars

\* C29: rendering leaves the asset list in the order the user entered.
\* Violated: the render sorts the state array in place.
C29_AssetsKeepOrder == [][assets' = assets]_vars

\* what holds: a render keeps the assets themselves, in some order
RenderKeepsTheAssets ==
    [][/\ Len(assets') = Len(assets)
       /\ \A k \in 1..Len(assets) :
             \E j \in 1..Len(assets) : assets'[j] = assets[k]]_vars

(***************************************************************************)
(* The import of parseExcelFile (under SpecExcel)                          *)
(***************************************************************************)
ExcelDone == pc = "xl_done"

\* the cell under the first of the headers that the row has, or the default
\* when it has none of them
Present(cell) == cell[1] # "undefined"

FirstPresent(a, b) == IF Present(a) THEN a ELSE b

StatedExpectedReturn(row) ==
    parseFloat(
      FirstPresent(Lookup(row, "Expected Return"),
        FirstPresent(Lookup(row, "expectedReturn"),
          FirstPresent(Lookup(row, "EXPECTED_RETURN"),
            FirstPresent(Lookup(row, "Expected_Return"), NumberCell(Rat(1, 10)))))))

StatedVolatility(row) ==
    parseFloat(
      FirstPresent(Lookup(row, "Volatility"),
        FirstPresent(Lookup(row, "volatility"),
          FirstPresent(Lookup(row, "VOLATILITY"), NumberCell(Rat(2, 10))))))

StatedPrice(row) ==
    parseFloat(
      FirstPresent(Lookup(row, "Price"),
        FirstPresent(Lookup(row, "price"),
          FirstPresent(Lookup(row, "PRICE"), NumberCell(Num(100))))))

\* the promise was settled by exactly one call, and a workbook gave assets
\* that all have a symbol and a weight above 0
SettledOnceWellFormed ==
    /\ settleCalls = 1
    /\ promise.state # "pending"
    /\ file.kind = "workbook" <=> promise.state = "fulfilled"
    /\ file.kind = "workbook" =>
          \A a \in 1..Len(promise.value) :
              /\ promise.value[a].symbol # ""
              /\ Lt(Zero, promise.value[a].weight)

\* asset was made from the row at the 0-based index, with the defaults taken
\* only for the columns the row does not have
MadeFromAsStated(asset, row, index) ==
    /\ asset.symbol = SymbolOf(row, index)[2]
    /\ asset.expectedReturn = StatedExpectedReturn(row)
    /\ asset.volatility = StatedVolatility(row)
    /\ asset.price = StatedPrice(row)

\* C30: the defaults 0.1, 0.2 and 100 are applied only when the column is
\* missing from the row, so that an explicit 0 is imported as 0; every
\* imported asset has a non-empty symbol and a weight above 0; the promise
\* settles exactly once.  Violated: a cell holding 0 is falsy in
\* `row.X || default` and is replaced by the default.
C30_DefaultsOnlyWhenMissing ==
    ExcelDone =>
        /\ SettledOnceWellFormed
        /\ file.kind = "workbook" =>
              \A a \in 1..Len(promise.value) :
                  \E k \in 1..Len(file.rows) :
                      MadeFromAsStated(promise.value[a], file.rows[k], k - 1)

\* what holds: one settlement, assets with a symbol and a positive weight,
\* and each of them made from a row with the defaults taken for the columns
\* that are missing or hold a falsy cell
ImportWithDefaultsForFalsyCells ==
    ExcelDone =>
        /\ SettledOnceWellFormed
        /\ file.kind = "workbook" =>
              \A a \in 1..Len(promise.value) :
                  \E k \in 1..Len(file.rows) :
                      LET row == file.rows[k]
                          zeroed(header) == Present(Lookup(row, header))
                                            /\ ~Truthy(Lookup(row, header))
                      IN  /\ promise.value[a].symbol = SymbolOf(row, k - 1)[2]
                          /\ promise.value[a].expectedReturn =
                               IF zeroed("Expected Return") THEN Rat(1, 10)
                               ELSE StatedExpectedReturn(row)
                          /\ promise.value[a].volatility =
                               IF zeroed("Volatility") THEN Rat(2, 10)
                               ELSE StatedVolatility(row)
                          /\ promise.value[a].price =
                               IF zeroed("Price") THEN Num(100)
                               ELSE StatedPrice(row)

============================================================================
